---- MODULE Spec2Model ----
(***************************************************************************)
(* Test-case generation and execution engine of the API tester             *)
(* (src/backend/v3.py): the template generator, the generation             *)
(* orchestrator (small-N path with retries, batched path), the test runner *)
(* with its response evaluation, and the summary.                          *)
(*                                                                         *)
(* Representation.  A test case is a record.  A generated test case keeps  *)
(* where it came from (src), its category and the "(variant k)" number of  *)
(* its description (0: no suffix); payloads, endpoints and prompt texts    *)
(* are not represented.  random.shuffle is a nondeterministic choice; the  *)
(* order inside a shuffled list is not represented, only which categories  *)
(* the kept prefix holds: a shuffled list is laid out category by          *)
(* category.  Python's int(num * p) is floor for num >= 0 and equals       *)
(* (num * 100p) \div 100 for every num below 2000 (the float products were *)
(* compared with the integer quotients); len(v) >= num * 0.7 likewise      *)
(* equals 10 * len(v) >= 7 * num.                                          *)
(***************************************************************************)
EXTENDS Integers, Sequences, FiniteSets, TLC

VARIABLES
    \* ---- inputs of one generation request
    num_tests,       \* requested count
    client,          \* TRUE: the provider client is configured (self.client is not None)
    sample_keys,     \* number of top-level keys of sample_data (0: empty payload)
    \* ---- generate_test_cases / _generate_test_cases_batched
    gpc,             \* "idle", "attempt", "batch", "done", "raised"
    attempt,         \* loop variable of the retry loop
    batch_idx,       \* loop variable of the batch loop
    tests_per_batch, \* requested size of every batch
    all_tests,       \* aggregate of the batched path
    used_fallback,   \* flag of the batched path
    batch_fallback,  \* the batch_fallback flag every finished batch returned, in order
    batch_lens,      \* len(batch_tests) of every finished batch, in order
    gen_result,      \* the returned pair (tests, used_fallback)
    provider_calls,  \* number of chat.completions.create calls made
    sleeps,          \* the time.sleep durations, in order
    last_valid,      \* len(valid_cases) of the latest provider response, -1 if none
    \* ---- _generate_fallback_tests called on its own
    fallback_out,    \* [called, tests]
    \* ---- APITester
    test_cases,      \* the list handed to run_ai_generated_tests
    target_bodies,   \* the response bodies the target API can answer with
    rpc,             \* "idle", "running", "done", "raised"
    results,         \* self.results, the result log
    probes,          \* what the HTTP call of every executed case came back with
    summary,         \* what get_summary returned, [computed, total, passed, failed, pass_rate]
    \* ---- the contract and regression helpers of backend.py, each called on its own
    tpc,             \* "idle", "done"
    baseline,        \* find_json_differences(baseline, current)
    current,
    differences,     \* the list find_json_differences returned
    data_value,      \* validate_against_schema(data_value, data_schema)
    data_schema,
    errors,          \* the list validate_against_schema returned
    old_schema,      \* compare_schemas(old_schema, new_schema)
    new_schema,
    breaking,        \* the "breaking" list compare_schemas returned
    raw_cases,       \* the parsed "tests" array of one provider response
    fixed_cases      \* the test cases made of it, or the template cases

gen_inputs == <<num_tests, client, sample_keys>>
gen_vars == <<num_tests, client, sample_keys, gpc, attempt, batch_idx, tests_per_batch,
              all_tests, used_fallback, batch_fallback, batch_lens, gen_result,
              provider_calls, sleeps, last_valid, fallback_out>>
run_vars == <<test_cases, target_bodies, rpc, results, probes, summary>>
tool_vars == <<tpc, baseline, current, differences, data_value, data_schema, errors,
               old_schema, new_schema, breaking, raw_cases, fixed_cases>>
vars == <<gen_vars, run_vars, tool_vars>>

(***************************************************************************)
(* Bounds of the model.                                                    *)
(***************************************************************************)
MaxNum == 120       \* largest requested count
MaxKeys == 6        \* largest number of top-level keys of the sample payload
MaxExtra == 1       \* how many valid items more than requested a provider may return
MaxInvalid == 1     \* how many unusable items a provider response may hold
MaxCases == 3       \* longest list of test cases handed to the runner
MaxListLen == 2     \* longest list of a JSON document

(***************************************************************************)
(* Program constants.                                                      *)
(***************************************************************************)
max_retries == 3
batch_size == 40
SmallNumLimit == 50
MissingFieldCap == 5
security_templates_len == 34
happy_templates_len == 10
negative_templates_base == 10
edge_templates_len == 10
fuzz_templates_len == 32

Max(a, b) == IF a >= b THEN a ELSE b
Min(a, b) == IF a <= b THEN a ELSE b

\* Python's s[:n] for n >= 0.
Take(s, n) == SubSeq(s, 1, Min(n, Len(s)))

(***************************************************************************)
(* _generate_fallback_tests                                                *)
(***************************************************************************)
CategoryOrder == <<"security_test", "happy_path", "negative_test", "edge_case", "fuzz_test">>
Categories == {CategoryOrder[i] : i \in 1..Len(CategoryOrder)}

\* distributions, in percent
distributions ==
    [happy_path |-> 25, negative_test |-> 20, security_test |-> 20,
     edge_case |-> 15, fuzz_test |-> 20]

\* max(floor, int(num * distributions[c]))
minimum == [happy_path |-> 3, negative_test |-> 3, security_test |-> 5,
            edge_case |-> 3, fuzz_test |-> 3]

\* the share is rounded to the nearest integer instead of truncated
RawCount_rounded(c, num) == Max(minimum[c], (num * distributions[c] + 50) \div 100)

RawCount(c, num) == Max(minimum[c], (num * distributions[c]) \div 100)

RawTotal(num) ==
    RawCount("happy_path", num) + RawCount("negative_test", num)
  + RawCount("security_test", num) + RawCount("edge_case", num)
  + RawCount("fuzz_test", num)


\* counts without the adjustment of happy_path
counts_unadjusted(c, num) == RawCount(c, num)

\* counts with only the "total < num" branch of the adjustment
counts_adjust_up_only(c, num) ==
    IF c = "happy_path"
    THEN RawCount(c, num) + Max(0, num - RawTotal(num))
    ELSE RawCount(c, num)

\* counts with the difference given to the last category
counts_adjust_last(c, num) ==
    IF c = "fuzz_test"
    THEN RawCount(c, num) + (num - RawTotal(num))
    ELSE RawCount(c, num)

\* counts, after "Adjust to match exactly num tests": happy_path takes the whole
\* difference, in both directions, and may become negative.
counts(c, num) ==
    IF c = "happy_path"
    THEN RawCount(c, num) + (num - RawTotal(num))
    ELSE RawCount(c, num)

\* len(negative_templates): one "missing required field" template per key, at most 5
negative_templates_len(keys) == negative_templates_base + Min(keys, MissingFieldCap)

TemplateTest(c, v) == [src |-> "template", category |-> c, variant |-> v]

\* The security block: the first min(count, len) templates without suffix, then
\* "remaining" more, numbered from 1.
SecurityTests(count) ==
    [p \in 1..count |->
        TemplateTest("security_test",
                     IF p <= security_templates_len THEN 0
                     ELSE p - security_templates_len)]

\* The other four blocks: for i in range(count), suffix i // len + 1 once i >= len.
\* range(count) is empty for count <= 0.
CycledTests(c, count, len) ==
    [p \in 1..count |->
        TemplateTest(c, IF p - 1 >= len THEN ((p - 1) \div len) + 1 ELSE 0)]

CategoryTests(c, keys, num) ==
    CASE c = "security_test" -> SecurityTests(counts(c, num))
      [] c = "happy_path"    -> CycledTests(c, counts(c, num), happy_templates_len)
      [] c = "negative_test" -> CycledTests(c, counts(c, num), negative_templates_len(keys))
      [] c = "edge_case"     -> CycledTests(c, counts(c, num), edge_templates_len)
      [] c = "fuzz_test"     -> CycledTests(c, counts(c, num), fuzz_templates_len)

\* all_tests before the final shuffle, in the order the blocks are appended
AppendedTests(keys, num) ==
    CategoryTests("security_test", keys, num) \o CategoryTests("happy_path", keys, num)
 \o CategoryTests("negative_test", keys, num) \o CategoryTests("edge_case", keys, num)
 \o CategoryTests("fuzz_test", keys, num)

\* random.shuffle(all_tests); all_tests[:num].  When the cut drops nothing the
\* list is kept whole; otherwise any selection of min(num, len) of its items
\* can be the prefix: k[i] items of the i-th category.
ShuffleTake(keys, num) ==
    LET all == AppendedTests(keys, num)
        blk(i) == CategoryTests(CategoryOrder[i], keys, num)
    IN  IF num >= Len(all)
        THEN {all}
        ELSE { Take(blk(1), k[1]) \o Take(blk(2), k[2]) \o Take(blk(3), k[3])
                 \o Take(blk(4), k[4]) \o Take(blk(5), k[5]) :
               k \in { kk \in (0..Len(blk(1))) \X (0..Len(blk(2))) \X (0..Len(blk(3)))
                                \X (0..Len(blk(4))) \X (0..Len(blk(5))) :
                       kk[1] + kk[2] + kk[3] + kk[4] + kk[5] = num } }

\* The lists _generate_fallback_tests(api_url, sample_data, num) can return.
GenerateFallbackTests(keys, num) == ShuffleTake(keys, num)

(***************************************************************************)
(* The generation provider, seen from the orchestrator: what one           *)
(* chat.completions.create call can come back with.                        *)
(*   exception       the call raises (timeout, quota, network)             *)
(*   none_content    message.content is None                               *)
(*   empty_text      the text is empty or blank                            *)
(*   fence_only      nothing is left once the code fences are stripped     *)
(*   unparsable      json.loads fails                                      *)
(*   wrong_shape     parsed, neither an object with "tests" nor a list     *)
(*   tests_no_len    "tests" holds a value without a length (number, null) *)
(*   tests_not_list  "tests" holds a string or an object                   *)
(*   items           a list: valid items pass _validate_and_fix_test_case, *)
(*                   invalid ones are no dict or make it raise             *)
(***************************************************************************)
FailureKinds ==
    {"exception", "none_content", "empty_text", "fence_only", "unparsable",
     "wrong_shape", "tests_no_len", "tests_not_list"}

ProviderResponses(valids) ==
    [kind : FailureKinds, valid : {0}, invalid : {0}]
      \cup [kind : {"items"}, valid : valids, invalid : 0..MaxInvalid]

\* Every count of valid items up to MaxExtra more than requested.
ValidCounts(n) == 0..(n + MaxExtra)

\* The batched path makes one call per batch and the calls multiply: its
\* responses are drawn around the places where the code's behaviour changes
\* (nothing, the last count below the 70% mark and the first one at it, one
\* short of the request, the request, over-supply).
BatchValidCounts(n) ==
    {v \in 0..(n + MaxExtra) :
        \/ v = 0
        \/ v \in {(7 * n - 1) \div 10, ((7 * n - 1) \div 10) + 1}
        \/ v \in {n - 1, n, n + MaxExtra}}

ProviderTest == [src |-> "provider", category |-> "other", variant |-> 0]

\* valid_cases: the items that are dicts and that _validate_and_fix_test_case accepts
valid_cases(resp) == [i \in 1..resp.valid |-> ProviderTest]

(***************************************************************************)
(* generate_test_cases, small-N path                                       *)
(***************************************************************************)
\* min_acceptable = max(1, int(num_tests * 0.8))
\* the former threshold of 90%
min_acceptable_ninety(n) == Max(1, (n * 90) \div 100)

\* a threshold of one half
min_acceptable_half(n) == Max(1, (n * 50) \div 100)

min_acceptable(n) == Max(1, (n * 80) \div 100)

\* The exception a response makes the code raise ("none": it raises nothing):
\* the provider's own error, None[:500] and len(None) (TypeError), None.strip()
\* in the batch (AttributeError), json.loads, and the ValueError the code raises
\* itself when the parsed value has no "tests" array.
RaisedInAttempt(kind) ==
    CASE kind = "exception"    -> "APIError"
      [] kind = "none_content" -> "TypeError"
      [] kind = "unparsable"   -> "JSONDecodeError"
      [] kind = "wrong_shape"  -> "ValueError"
      [] kind = "tests_no_len" -> "TypeError"
      [] OTHER                 -> "none"

\* except (json.JSONDecodeError, ValueError), around json.loads and the
\* extraction of the "tests" array
InnerCatches(exc) == exc \in {"JSONDecodeError", "ValueError"}


\* a handler that names the provider's error class only
OuterCatches_narrow(exc) == exc = "APIError"

\* except Exception, around the whole pass of the loop
OuterCatches(exc) == TRUE

\* What one pass of the retry loop decides, from the provider's response:
\* "valid" returns the validated items, "fallback" returns the templates,
\* "continue" goes to the next pass of the loop, "raise" lets an exception out.
AttemptVerdict(resp, n, att) ==
    LET last == (att = max_retries - 1)
        retry_or_fallback == IF last THEN "fallback" ELSE "continue"
        exc == RaisedInAttempt(resp.kind)
        in_inner_try == resp.kind \in {"unparsable", "wrong_shape", "tests_no_len"}
    IN  IF exc # "none"
        THEN IF in_inner_try /\ InnerCatches(exc) THEN retry_or_fallback
             ELSE IF OuterCatches(exc) THEN retry_or_fallback
             ELSE "raise"
        ELSE CASE resp.kind = "empty_text" -> retry_or_fallback
               [] resp.kind = "fence_only" -> "continue"
               [] resp.kind = "tests_not_list" -> retry_or_fallback
               [] resp.kind = "items" ->
                     IF resp.valid >= n THEN "valid"
                     ELSE IF resp.valid >= min_acceptable(n) THEN "valid"
                     ELSE retry_or_fallback


\* the templates returned with the flag left False
FallbackReturn_unflagged(fb) == [tests |-> fb, used_fallback |-> FALSE]

\* return self._generate_fallback_tests(...), True
FallbackReturn(fb) == [tests |-> fb, used_fallback |-> TRUE]


\* the validated items returned without the cut to num_tests
AcceptedTests_uncut(resp, n) == valid_cases(resp)

\* the validated items filled up to num_tests with template cases, as a batch
\* does
AcceptedTests_padded(resp, n) ==
    Take(valid_cases(resp), n)
       \o [i \in 1..(n - Min(n, resp.valid)) |-> TemplateTest("happy_path", 0)]

\* return valid_cases[:num_tests] / return valid_cases
AcceptedTests(resp, n) ==
    IF resp.valid >= n THEN Take(valid_cases(resp), n) ELSE valid_cases(resp)

\* the wait is made before the first attempt too
BackoffSleeps_every(att) == <<2 ^ att>>

\* wait_time = 2 ** attempt, slept before every attempt but the first
BackoffSleeps(att) == IF att > 0 THEN <<2 ^ att>> ELSE <<>>

(***************************************************************************)
(* _generate_test_cases_batched and _generate_single_batch                 *)
(***************************************************************************)
total_batches(n) == (n + batch_size - 1) \div batch_size

RECURSIVE SplitBatches(_, _)
SplitBatches(remaining, left) ==
    IF left = 0 THEN <<>>
    ELSE LET batch_count == Min(batch_size, remaining)
         IN  <<batch_count>> \o SplitBatches(remaining - batch_count, left - 1)

TestsPerBatch(n) == SplitBatches(n, total_batches(n))

\* len(valid_cases) >= num_tests * 0.7
\* a threshold of one half
BatchAccepts_half(v, n) == 10 * v >= 5 * n

BatchAccepts(v, n) == 10 * v >= 7 * n

\* The exception a response makes _generate_single_batch raise.
RaisedInBatch(kind) ==
    CASE kind = "exception"    -> "APIError"
      [] kind = "none_content" -> "AttributeError"
      [] kind \in {"empty_text", "fence_only", "unparsable"} -> "JSONDecodeError"
      [] kind = "tests_no_len" -> "TypeError"
      [] OTHER                 -> "none"

\* a handler that names the provider's error class only
BatchCatches_narrow(exc) == exc = "APIError"

\* except Exception, around the body of _generate_single_batch
BatchCatches(exc) == TRUE

SingleBatchRaises(resp) ==
    RaisedInBatch(resp.kind) # "none" /\ ~BatchCatches(RaisedInBatch(resp.kind))

\* The number of validated items of a batch response that raised nothing: a
\* "tests" value that is a string or an object is iterated and yields none.
BatchValid(resp) == IF resp.kind = "items" THEN resp.valid ELSE 0

\* The pairs (batch_tests, batch_fallback) _generate_single_batch can return
\* for a provider response that lets no exception out.
SingleBatchResults(resp, keys, n) ==
    IF RaisedInBatch(resp.kind) # "none" \/ resp.kind = "wrong_shape"
    THEN \* the except handler, or the parsed value has no "tests" array
         {<<fb, TRUE>> : fb \in GenerateFallbackTests(keys, n)}
    ELSE IF BatchAccepts(BatchValid(resp), n)
         THEN {<<[i \in 1..BatchValid(resp) |-> ProviderTest], FALSE>>}
         ELSE {<<[i \in 1..BatchValid(resp) |-> ProviderTest] \o extra, TRUE>> :
                  extra \in GenerateFallbackTests(keys, n - BatchValid(resp))}


\* the aggregate returned without the cut to num_tests
FinalTests_uncut(tests, n) == tests

\* final_tests = all_tests[:num_tests]
FinalTests(tests, n) == Take(tests, n)

\* the supplement after the loop leaves the flag as the batches set it
BatchedReturn_flag_kept(tests, flag, keys, n) ==
    IF Len(tests) < n
    THEN {<<FinalTests(tests \o extra, n), flag>> :
             extra \in GenerateFallbackTests(keys, n - Len(tests))}
    ELSE {<<FinalTests(tests, n), flag>>}

\* the pause is taken after the last batch too
BatchPause_always(idx, total) == <<1>>

\* if batch_idx < total_batches - 1: time.sleep(1)
BatchPause(idx, total) == IF idx < total - 1 THEN <<1>> ELSE <<>>

\* The tail of _generate_test_cases_batched: supplement the shortfall, cut to
\* num_tests; the pairs (final_tests, used_fallback) it can return.
BatchedReturn(tests, flag, keys, n) ==
    IF Len(tests) < n
    THEN {<<FinalTests(tests \o extra, n), TRUE>> :
             extra \in GenerateFallbackTests(keys, n - Len(tests))}
    ELSE {<<FinalTests(tests, n), flag>>}

(***************************************************************************)
(* APITester: test_request, _validate_response_body, log_result,           *)
(* get_summary.                                                            *)
(*                                                                         *)
(* A test case, as the runner reads it: method, description, custom        *)
(* (category == 'custom'), expected_status ([is_list, code, codes]: an int *)
(* or a list of ints), validate_body, expected_body and expected_schema.   *)
(* JSON values are named by strings: "None" (absent), "{}" (the empty      *)
(* mapping) and non-empty values "A", "B"; "Schema_A" is a schema only "A" *)
(* conforms to and "Malformed" is no valid schema.  A response body is a   *)
(* JSON value or "not_json".  The AI root-cause analysis of a failure is   *)
(* not represented: every exception of it is caught and it changes neither *)
(* the status nor the control flow.                                        *)
(***************************************************************************)
SupportedMethods == {"GET", "POST", "PUT", "PATCH", "DELETE"}

IntStatus(c) == [is_list |-> FALSE, code |-> c, codes |-> <<>>]
ListStatus(cs) == [is_list |-> TRUE, code |-> 0, codes |-> cs]

StatusCodes == {200, 404, 500}
JsonValues == {"{}", "A", "B"}
Bodies == JsonValues \cup {"not_json"}

\* What one HTTP call comes back with: a response, requests.exceptions.Timeout,
\* or another requests.exceptions.RequestException.
HttpOutcomes(bodies) ==
    [kind : {"response"}, status : StatusCodes, body : bodies]
      \cup [kind : {"timeout", "error"}, status : {0}, body : {"-"}]

\* No HTTP call was made (unsupported method).
NoProbe == [kind |-> "none", status |-> 0, body |-> "-"]

\* Python truthiness of expected_body / expected_schema: None and {} are falsy.
Truthy(v) == v \notin {"None", "{}"}

\* jsonschema.validate(instance, schema): "ok", "ValidationError", or
\* "SchemaError" for a schema that is itself invalid.
JsonschemaValidate(instance, schema) ==
    CASE schema = "Malformed" -> "SchemaError"
      [] schema = "Schema_A"  -> IF instance = "A" THEN "ok" ELSE "ValidationError"
      [] OTHER                -> "ok"

\* _validate_response_body: [valid, message, raises]
ValidateResponseBody(body, expected_body, expected_schema) ==
    IF body = "not_json"
    THEN [valid |-> FALSE, message |-> "Response is not valid JSON", raises |-> FALSE]
    ELSE IF Truthy(expected_body)
    THEN IF body = expected_body
         THEN [valid |-> TRUE, message |-> "Response body matches expected", raises |-> FALSE]
         ELSE [valid |-> FALSE, message |-> "Body mismatch", raises |-> FALSE]
    ELSE IF Truthy(expected_schema)
    THEN CASE JsonschemaValidate(body, expected_schema) = "ok" ->
                [valid |-> TRUE, message |-> "Response matches schema", raises |-> FALSE]
           [] JsonschemaValidate(body, expected_schema) = "ValidationError" ->
                [valid |-> FALSE, message |-> "Schema validation failed", raises |-> FALSE]
           [] OTHER ->
                \* SchemaError is no ValidationError: it leaves the function
                [valid |-> FALSE, message |-> "", raises |-> TRUE]
    ELSE [valid |-> TRUE, message |-> "No body validation specified", raises |-> FALSE]

\* a list is matched against its first code only
StatusMatch_first(expected_status, status_code) ==
    IF expected_status.is_list
    THEN Len(expected_status.codes) > 0 /\ status_code = expected_status.codes[1]
    ELSE status_code = expected_status.code

\* status_match: membership for a list, equality for an int
StatusMatch(expected_status, status_code) ==
    IF expected_status.is_list
    THEN \E k \in 1..Len(expected_status.codes) : expected_status.codes[k] = status_code
    ELSE status_code = expected_status.code

\* the body is validated whenever the status matches
ShouldValidateBody_always(validate_body, status_match) == status_match

\* if validate_body and status_match
ShouldValidateBody(validate_body, status_match) == validate_body /\ status_match

\* only requests.exceptions.Timeout has a handler
TransportCaught_timeout_only(kind) == kind = "timeout"

\* except requests.exceptions.Timeout / except requests.exceptions.RequestException
TransportCaught(kind) == kind \in {"timeout", "error"}

TestResult(name, status, reason, message, response_data) ==
    [test |-> name, status |-> status,
     details |-> [reason |-> reason, message |-> message],
     response_data |-> response_data]

\* What test_request does with one test case and the outcome of its HTTP
\* call: [logged, result, raises].  response_data is the status code of a
\* PASS and 0 (None) otherwise.
TestRequestOutcome(name, tc, out) ==
    LET none == TestResult(name, "FAIL", "", "", 0)
    IN
    IF tc.method \notin SupportedMethods
    THEN [logged |-> TRUE, raises |-> FALSE,
          result |-> TestResult(name, "FAIL", "Unsupported method", "", 0)]
    ELSE IF out.kind # "response"
    THEN IF TransportCaught(out.kind)
         THEN [logged |-> TRUE, raises |-> FALSE,
               result |-> TestResult(name, "FAIL",
                              IF out.kind = "timeout" THEN "Request timeout" ELSE "Error",
                              "", 0)]
         ELSE [logged |-> FALSE, raises |-> TRUE, result |-> none]
    ELSE LET status_match == StatusMatch(tc.expected_status, out.status)
             checked == ShouldValidateBody(tc.validate_body, status_match)
             body == IF checked
                     THEN ValidateResponseBody(out.body, tc.expected_body, tc.expected_schema)
                     ELSE [valid |-> TRUE, message |-> "", raises |-> FALSE]
         IN  IF body.raises
             THEN [logged |-> FALSE, raises |-> TRUE, result |-> none]
             ELSE IF status_match /\ body.valid
             THEN [logged |-> TRUE, raises |-> FALSE,
                   result |-> TestResult(name, "PASS", "Status",
                                  IF tc.validate_body THEN body.message ELSE "",
                                  out.status)]
             ELSE [logged |-> TRUE, raises |-> FALSE,
                   result |-> TestResult(name, "FAIL",
                                  IF ~status_match THEN "Expected status" ELSE "",
                                  IF ~body.valid THEN body.message ELSE "", 0)]

\* the result is put in front of the log
LogResult_front(log, result) == <<result>> \o log

\* log_result: self.results.append(result)
LogResult(log, result) == Append(log, result)

\* test_name of run_ai_generated_tests: "[Custom Test i] d" or "[AI Test i] d"
TestName(tc, i) ==
    [prefix |-> IF tc.custom THEN "Custom Test" ELSE "AI Test",
     idx |-> i, description |-> tc.description]

\* sum(1 for r in self.results if r['status'] == 'PASS')
RECURSIVE PassedCount(_)
PassedCount(log) ==
    IF log = <<>> THEN 0
    ELSE (IF Head(log).status = "PASS" THEN 1 ELSE 0) + PassedCount(Tail(log))

\* (passed/total*100) if total > 0 else 0, kept as the fraction num/den
PassRate(passed, total) ==
    IF total > 0 THEN [num |-> passed * 100, den |-> total] ELSE [num |-> 0, den |-> 1]

\* every entry is counted as passed
GetSummaryOf_all_passed(log) ==
    [computed |-> TRUE, total |-> Len(log), passed |-> Len(log), failed |-> 0,
     pass_rate |-> PassRate(Len(log), Len(log))]

\* get_summary
GetSummaryOf(log) ==
    LET total == Len(log)
        passed == PassedCount(log)
        failed == total - passed
    IN  [computed |-> TRUE, total |-> total, passed |-> passed, failed |-> failed,
         pass_rate |-> PassRate(passed, total)]

NoSummary ==
    [computed |-> FALSE, total |-> 0, passed |-> 0, failed |-> 0,
     pass_rate |-> [num |-> 0, den |-> 1]]

\* The test cases the runner is given.
CaseChoices ==
    [method : {"GET", "POST", "HEAD"},
     description : {"d1", "d2"},
     custom : BOOLEAN,
     expected_status : {IntStatus(200), ListStatus(<<200, 404>>)},
     validate_body : BOOLEAN,
     expected_body : {"None", "{}", "A"},
     expected_schema : {"None", "{}", "Schema_A", "Malformed"}]

\* Plain cases, for runs over whole lists: no body validation, one expected code.
PlainCaseChoices ==
    {tc \in CaseChoices :
        /\ tc.method \in {"GET", "HEAD"}
        /\ ~tc.custom
        /\ tc.expected_status = IntStatus(200)
        /\ ~tc.validate_body
        /\ tc.expected_body = "None"
        /\ tc.expected_schema = "None"}

\* The sequences over S of length 0..n
SeqsUpTo(S, n) == UNION {[1..k -> S] : k \in 0..n}

(***************************************************************************)
(* JSON-like values, as Python holds them.                                 *)
(*                                                                         *)
(* A value is [k, s, d, l]: k is the name of its Python type, s the text   *)
(* of a scalar, d the mapping of a dict (a function on its keys) and l the *)
(* sequence of a list; the fields a type does not use are empty.  The      *)
(* order in which Python iterates a set of keys is not represented: keys   *)
(* are visited in the order of KeyOrder.                                   *)
(***************************************************************************)
Py(k, s) == [k |-> k, s |-> s, d |-> <<>>, l |-> <<>>]

None == Py("NoneType", "None")
PyStr(t) == Py("str", t)
PyDict(d) == [k |-> "dict", s |-> "", d |-> d, l |-> <<>>]
PyList(l) == [k |-> "list", s |-> "", d |-> <<>>, l |-> l]

\* the scalars a document holds at its top level
Scalars == {None, Py("bool", "True"), Py("int", "1"), Py("int", "2"),
            Py("float", "1.0"), PyStr("a")}

\* the scalars the containers hold
Elements == {Py("int", "1"), Py("int", "2"), PyStr("a")}

Keys == {"a", "b"}
KeyOrder == <<"a", "b">>

DictsOver(S) == UNION {[ks -> S] : ks \in SUBSET Keys}
ListsOver(S, n) == UNION {[1..m -> S] : m \in 0..n}

\* dicts and lists of scalars
FlatContainers ==
    {PyDict(d) : d \in DictsOver(Elements)}
       \cup {PyList(l) : l \in ListsOver(Elements, MaxListLen)}

\* a container in a one-key dict or in a one-item list
NestedContainers ==
    {PyDict([key \in {"a"} |-> c]) : c \in FlatContainers}
       \cup {PyList(<<c>>) : c \in FlatContainers}

JsonDocuments == Scalars \cup FlatContainers \cup NestedContainers

\* len(x) of a dict or a list
PyLen(x) == IF x.k = "dict" THEN Cardinality(DOMAIN x.d) ELSE Len(x.l)

(***************************************************************************)
(* find_json_differences                                                   *)
(***************************************************************************)
Difference(path, baseline_value, current_value, change_type) ==
    [path |-> path, baseline_value |-> baseline_value,
     current_value |-> current_value, change_type |-> change_type]

\* path or "root"
PathOrRoot(path) == IF path # "" THEN path ELSE "root"

\* f"{path}.{key}" if path else key
KeyPath(path, key) == IF path # "" THEN path \o "." \o key ELSE key

\* f"{path}[{i}]", i counted from 0
IndexPath(path, i) == path \o "[" \o ToString(i) \o "]"

\* f"array[{len(x)}]"
ArrayLabel(x) == PyStr("array[" \o ToString(Len(x.l)) \o "]")

\* type(baseline) != type(current)
TypeDiffers(b, c) == b.k # c.k

\* the scalars are compared only when both are strings
ScalarDiffers_str_only(b, c) == b.k = "str" /\ b.s # c.s

\* baseline != current, for two scalars of one type
ScalarDiffers(b, c) == b.s # c.s

\* every key of the baseline that is not new counts as removed
KeyRemoved_unchecked(key, c) == TRUE

\* key not in current
KeyRemoved(key, c) == key \notin DOMAIN c.d

RECURSIVE find_json_differences(_, _, _)
RECURSIVE DictDifferences(_, _, _, _)
RECURSIVE ListDifferences(_, _, _, _)

\* the loop over all_keys, from the i-th key of KeyOrder on
DictDifferences(b, c, path, i) ==
    IF i > Len(KeyOrder) THEN <<>>
    ELSE LET key == KeyOrder[i]
             new_path == KeyPath(path, key)
             here ==
                IF key \notin (DOMAIN b.d \cup DOMAIN c.d) THEN <<>>
                ELSE IF key \notin DOMAIN b.d
                THEN <<Difference(new_path, None, c.d[key], "added")>>
                ELSE IF KeyRemoved(key, c)
                THEN <<Difference(new_path, b.d[key], None, "removed")>>
                ELSE find_json_differences(b.d[key], c.d[key], new_path)
         IN  here \o DictDifferences(b, c, path, i + 1)

\* only the first pair of items is compared
ListDifferences_first_only(b, c, path, i) ==
    IF i > Min(1, Len(b.l)) THEN <<>>
    ELSE find_json_differences(b.l[i], c.l[i], IndexPath(path, i - 1))

\* the loop over zip(baseline, current), from the i-th item on
ListDifferences(b, c, path, i) ==
    IF i > Len(b.l) THEN <<>>
    ELSE find_json_differences(b.l[i], c.l[i], IndexPath(path, i - 1))
            \o ListDifferences(b, c, path, i + 1)

find_json_differences(b, c, path) ==
    IF TypeDiffers(b, c)
    THEN <<Difference(PathOrRoot(path), b, c, "type_changed")>>
    ELSE IF b.k = "dict" THEN DictDifferences(b, c, path, 1)
    ELSE IF b.k = "list"
    THEN IF Len(b.l) # Len(c.l)
         THEN <<Difference(PathOrRoot(path), ArrayLabel(b), ArrayLabel(c),
                           "array_length_changed")>>
         ELSE ListDifferences(b, c, path, 1)
    ELSE IF ScalarDiffers(b, c)
         THEN <<Difference(PathOrRoot(path), b, c, "value_changed")>>
         ELSE <<>>

(***************************************************************************)
(* validate_against_schema, validate_field                                 *)
(*                                                                         *)
(* A schema is [type, required, properties]: required is the list of       *)
(* required field names ([] when absent; JSON Schema keeps its items       *)
(* unique), properties maps field names to the declared type of the field  *)
(* ({} when absent).  A declared type of "None" is a field schema without  *)
(* 'type'; "not_a_dict" is a field schema that is no mapping, on which     *)
(* schema.get raises; "object_requiring_id" is the field schema            *)
(* {type: object, required: [id], properties: {id: {type: string}}} and    *)
(* "integer_with_example" is {type: integer, example: "abc"}.              *)
(* Fields are visited in the order of FieldOrder.                          *)
(***************************************************************************)
SchemaFields == {"email", "name"}
FieldOrder == <<"email", "name">>

MappingsOver(fields, S) == UNION {[fs -> S] : fs \in SUBSET fields}

\* the lists over S without a repeated item
RECURSIVE UniqueLists(_)
UniqueLists(S) ==
    {<<>>} \cup UNION {{<<x>> \o rest : rest \in UniqueLists(S \ {x})} : x \in S}

SchemaTypes == {"object", "array", "string"}
FieldTypes == {"string", "number", "integer", "boolean", "object", "array", "None",
               "not_a_dict", "object_requiring_id", "integer_with_example"}

\* schema.get('type') of a field schema
DeclaredType(field_schema) ==
    CASE field_schema = "object_requiring_id"  -> "object"
      [] field_schema = "integer_with_example" -> "integer"
      [] OTHER                                 -> field_schema

Schemas(types, fieldTypes) ==
    [type : types, required : UniqueLists(SchemaFields),
     properties : MappingsOver(SchemaFields, fieldTypes)]

\* what a field of the data holds
FieldValues == {Py("int", "1"), PyStr("a"), None, Py("bool", "True"), PyDict(<<>>)}

DataValues ==
    {PyDict(d) : d \in MappingsOver(SchemaFields, FieldValues)}
       \cup {PyList(<<>>), PyStr("a")}

\* isinstance(value, T) for the T of each declared type; bool is a subclass
\* of int
IsInstance(value, expected_type) ==
    CASE expected_type = "string"  -> value.k = "str"
      [] expected_type = "number"  -> value.k \in {"int", "float", "bool"}
      [] expected_type = "integer" -> value.k \in {"int", "bool"}
      [] expected_type = "boolean" -> value.k = "bool"
      [] expected_type = "object"  -> value.k = "dict"
      [] expected_type = "array"   -> value.k = "list"
      [] OTHER                     -> TRUE

SchemaError(type, path, expected, actual) ==
    [type |-> type, path |-> path, expected |-> expected, actual |-> actual]

\* validate_field: [errors, raises]
validate_field(value, field_type, path) ==
    IF field_type = "not_a_dict"
    THEN [errors |-> <<>>, raises |-> TRUE]
    ELSE IF IsInstance(value, DeclaredType(field_type))
    THEN [errors |-> <<>>, raises |-> FALSE]
    ELSE [errors |-> <<SchemaError("type_mismatch", path, DeclaredType(field_type),
                                   value.k)>>,
          raises |-> FALSE]

\* a field present in the data counts as missing
FieldMissing_inverted(field, data) == field \in DOMAIN data.d

\* field not in data
FieldMissing(field, data) == field \notin DOMAIN data.d

\* the loop "for field in required", from the i-th item on
RECURSIVE RequiredErrors(_, _, _)
RequiredErrors(data, required, i) ==
    IF i > Len(required) THEN <<>>
    ELSE (IF FieldMissing(required[i], data)
          THEN <<SchemaError("missing_required_field", required[i], required[i], "None")>>
          ELSE <<>>)
            \o RequiredErrors(data, required, i + 1)

\* the loop "for field, field_schema in properties.items()", from the i-th
\* field on; an exception of validate_field ends it
RECURSIVE PropertyErrors(_, _, _)
PropertyErrors(data, properties, i) ==
    IF i > Len(FieldOrder) THEN [errors |-> <<>>, raises |-> FALSE]
    ELSE LET field == FieldOrder[i]
             rest == PropertyErrors(data, properties, i + 1)
         IN  IF field \in DOMAIN properties /\ field \in DOMAIN data.d
             THEN LET one == validate_field(data.d[field], properties[field], field)
                  IN  IF one.raises THEN one
                      ELSE [errors |-> one.errors \o rest.errors, raises |-> rest.raises]
             ELSE rest

validate_against_schema(data, schema) ==
    IF schema.type = "object"
    THEN IF data.k # "dict"
         THEN <<SchemaError("type_mismatch", "root", "object", data.k)>>
         ELSE LET props == PropertyErrors(data, schema.properties, 1)
              IN  RequiredErrors(data, schema.required, 1) \o props.errors
                     \o (IF props.raises
                         THEN <<SchemaError("validation_error", "root", "", "")>>
                         ELSE <<>>)
    ELSE IF schema.type = "array"
    THEN IF data.k # "list"
         THEN <<SchemaError("type_mismatch", "root", "array", data.k)>>
         ELSE <<>>
    ELSE <<>>

(***************************************************************************)
(* generate_sample_from_schema, generate_sample_value                      *)
(***************************************************************************)
\* schema.get('example', default) of a field schema
ExampleOr(field_schema, default) ==
    IF field_schema = "integer_with_example" THEN PyStr("abc") ELSE default

\* an array property is given None
SampleArray_none == None

\* return [] for an array
SampleArray == PyList(<<>>)

\* generate_sample_value(field_schema): [value, raises].  A field schema
\* without 'type' counts as a string; an object is built by
\* generate_sample_from_schema from its own properties.
generate_sample_value(field_schema) ==
    LET field_type == IF field_schema = "None" THEN "string"
                      ELSE DeclaredType(field_schema)
        value ==
           CASE field_type = "string"  -> ExampleOr(field_schema, PyStr("test-string"))
             [] field_type = "number"  -> ExampleOr(field_schema, Py("float", "123.45"))
             [] field_type = "integer" -> ExampleOr(field_schema, Py("int", "123"))
             [] field_type = "boolean" -> ExampleOr(field_schema, Py("bool", "True"))
             [] field_type = "object"  ->
                   IF field_schema = "object_requiring_id"
                   THEN PyDict([f \in {"id"} |-> PyStr("test-string")])
                   ELSE PyDict(<<>>)
             [] field_type = "array"   -> SampleArray
             [] OTHER                  -> None
    IN  IF field_schema = "not_a_dict"
        THEN [value |-> None, raises |-> TRUE]
        ELSE [value |-> value, raises |-> FALSE]

\* generate_sample_from_schema(schema): [value, raises]
generate_sample_from_schema(schema) ==
    IF schema.type = "object"
    THEN [value |-> PyDict([f \in DOMAIN schema.properties |->
                               generate_sample_value(schema.properties[f]).value]),
          raises |-> \E f \in DOMAIN schema.properties :
                         generate_sample_value(schema.properties[f]).raises]
    ELSE IF schema.type = "array"
    THEN [value |-> PyList(<<>>), raises |-> FALSE]
    ELSE generate_sample_value(schema.type)

(***************************************************************************)
(* compare_schemas                                                         *)
(***************************************************************************)
\* the declared types of the fields of a contract schema ("None": no 'type')
ContractFieldTypes == {"string", "integer", "None"}

ContractSchemas == Schemas({"object"}, ContractFieldTypes)

\* x in l, for a list l
InList(x, l) == \E i \in 1..Len(l) : l[i] = x

BreakingChange(type, field, old_type, new_type) ==
    [type |-> type, field |-> field, old_type |-> old_type, new_type |-> new_type,
     severity |-> "breaking"]

\* a change from or to an undeclared type is not seen
TypeChanged_declared_only(old_type, new_type) ==
    old_type # "None" /\ new_type # "None" /\ old_type # new_type

\* old_type != new_type
TypeChanged(old_type, new_type) == old_type # new_type

\* the loop "for field in old_props: if field not in new_props"
RECURSIVE RemovedFields(_, _, _)
RemovedFields(old_props, new_props, i) ==
    IF i > Len(FieldOrder) THEN <<>>
    ELSE (IF FieldOrder[i] \in DOMAIN old_props /\ FieldOrder[i] \notin DOMAIN new_props
          THEN <<BreakingChange("field_removed", FieldOrder[i], "", "")>>
          ELSE <<>>)
            \o RemovedFields(old_props, new_props, i + 1)

\* the loop "for field in old_props: if field in new_props"
RECURSIVE TypeChanges(_, _, _)
TypeChanges(old_props, new_props, i) ==
    IF i > Len(FieldOrder) THEN <<>>
    ELSE LET field == FieldOrder[i]
         IN  (IF /\ field \in DOMAIN old_props
                 /\ field \in DOMAIN new_props
                 /\ TypeChanged(old_props[field], new_props[field])
              THEN <<BreakingChange("field_type_changed", field,
                                    old_props[field], new_props[field])>>
              ELSE <<>>)
                \o TypeChanges(old_props, new_props, i + 1)

\* the loop "for field in new_required: if field not in old_required"
RECURSIVE NewlyRequired(_, _, _)
NewlyRequired(old_required, new_required, i) ==
    IF i > Len(new_required) THEN <<>>
    ELSE (IF ~InList(new_required[i], old_required)
          THEN <<BreakingChange("field_made_required", new_required[i], "", "")>>
          ELSE <<>>)
            \o NewlyRequired(old_required, new_required, i + 1)

\* compare_schemas(old_schema, new_schema)["breaking"]
compare_schemas(old, new) ==
    RemovedFields(old.properties, new.properties, 1)
       \o TypeChanges(old.properties, new.properties, 1)
       \o NewlyRequired(old.required, new.required, 1)

(***************************************************************************)
(* The test cases themselves: _validate_and_fix_test_case with the loop    *)
(* that applies it to the parsed "tests" array, and the method and         *)
(* expected_status of the template cases.                                  *)
(*                                                                         *)
(* An item of the array is [is_dict, method, expected_status].  The method *)
(* is [k, s]: k = "absent" (no such key), "str" (the string s) or "int" (a *)
(* number).  The expected_status is [k, n]: "absent", "int" (the number    *)
(* n), "numeric_str" (a string int() reads as n), "other_str", "list",     *)
(* "NoneType" or "inf" (the float infinity).  A test case is [method,      *)
(* expected_status], the latter as the runner reads it.                    *)
(***************************************************************************)
MaxItems == 2       \* longest "tests" array of a provider response

RawMethod(k, m) == [k |-> k, s |-> m]
RawStatus(k, n) == [k |-> k, n |-> n]

RawMethods ==
    {RawMethod("absent", ""), RawMethod("int", ""), RawMethod("str", "GET"),
     RawMethod("str", "post"), RawMethod("str", "head")}

RawStatuses ==
    {RawStatus("absent", 0), RawStatus("int", 404), RawStatus("numeric_str", 201),
     RawStatus("other_str", 0), RawStatus("list", 0), RawStatus("NoneType", 0),
     RawStatus("inf", 0)}

NotADict == [is_dict |-> FALSE, method |-> RawMethod("absent", ""),
             expected_status |-> RawStatus("absent", 0)]

RawItems ==
    [is_dict : {TRUE}, method : RawMethods, expected_status : RawStatuses]
      \cup {NotADict}

\* str.upper() on the method strings of the model
Upper(m) ==
    CASE m = "post" -> "POST"
      [] m = "head" -> "HEAD"
      [] OTHER      -> m

\* int(tc['expected_status']): the number, or the exception it raises
IntOf(st) ==
    CASE st.k \in {"int", "numeric_str"} -> [raised |-> "none", n |-> st.n]
      [] st.k = "other_str"              -> [raised |-> "ValueError", n |-> 0]
      [] st.k \in {"list", "NoneType"}   -> [raised |-> "TypeError", n |-> 0]
      [] st.k = "inf"                    -> [raised |-> "OverflowError", n |-> 0]

TestCase(method, expected_status) ==
    [method |-> method, expected_status |-> expected_status]

Raised == TestCase("<raised>", IntStatus(0))


\* tc['method'].upper(), for a method that is a string
FixedMethod(method) == Upper(method.s)

\* _validate_and_fix_test_case(tc): the fixed test case, or Raised when an
\* exception leaves the function (a method without upper(); an
\* expected_status int() fails on with an exception other than ValueError
\* and TypeError).
validate_and_fix_test_case(tc) ==
    LET method == IF tc.method.k = "absent" THEN RawMethod("str", "GET") ELSE tc.method
        status == IF tc.expected_status.k = "absent" THEN RawStatus("int", 200)
                  ELSE tc.expected_status
        as_int == IntOf(status)
    IN  IF method.k # "str" THEN Raised
        ELSE IF as_int.raised = "none"
             THEN TestCase(FixedMethod(method), IntStatus(as_int.n))
        ELSE IF as_int.raised \in {"ValueError", "TypeError"}
             THEN TestCase(FixedMethod(method), IntStatus(200))
        ELSE Raised

\* The validation loop of generate_test_cases and of _generate_single_batch:
\* valid_cases holds, in order, the fixed items that are dicts and made
\* _validate_and_fix_test_case raise nothing.
RECURSIVE ValidCasesOf(_)
ValidCasesOf(raw) ==
    IF raw = <<>> THEN <<>>
    ELSE LET tc == Head(raw)
         IN  (IF tc.is_dict /\ validate_and_fix_test_case(tc) # Raised
              THEN <<validate_and_fix_test_case(tc)>>
              ELSE <<>>)
                \o ValidCasesOf(Tail(raw))

\* The method and expected_status of the template cases: what the entries of
\* the five template lists hold, with and without has_auth.
TemplateCases ==
    [method : {"GET"},
     expected_status : {ListStatus(cs) : cs \in
        {<<200, 400, 403, 404>>, <<200, 400, 404>>, <<200, 400, 414>>,
         <<200, 400>>, <<200, 401, 403, 404>>, <<200, 404, 403>>, <<200,
         404, 414>>, <<200, 404>>}}]
      \cup
    [method : {"POST"},
     expected_status : {ListStatus(cs) : cs \in
        {<<200, 201, 400, 403, 404, 422>>, <<200, 201, 400, 403, 422>>,
         <<200, 201, 400, 404, 413, 422>>, <<200, 201, 400, 404, 422>>,
         <<200, 201, 400, 404>>, <<200, 201, 400, 413, 422, 500>>, <<200,
         201, 400, 413, 422>>, <<200, 201, 400, 422>>, <<200, 201, 404>>,
         <<200, 404>>, <<401, 403, 404>>}}]
      \cup
    [method : {"PUT"},
     expected_status : {ListStatus(cs) : cs \in
        {<<200, 201, 204, 404>>, <<200, 201, 404>>}}]
      \cup
    [method : {"PATCH"},
     expected_status : {ListStatus(cs) : cs \in
        {<<200, 201, 204, 404>>, <<200, 404>>}}]
      \cup
    [method : {"DELETE"},
     expected_status : {ListStatus(cs) : cs \in
        {<<200, 204, 404>>}}]

\* No helper has been called.
ToolIdle ==
    /\ tpc = "idle"
    /\ baseline = None
    /\ current = None
    /\ differences = <<>>
    /\ data_value = None
    /\ data_schema = None
    /\ errors = <<>>
    /\ old_schema = None
    /\ new_schema = None
    /\ breaking = <<>>
    /\ raw_cases = <<>>
    /\ fixed_cases = <<>>

(***************************************************************************)
(* Actions of the generation orchestrator.                                 *)
(***************************************************************************)
NoResult == [tests |-> <<>>, used_fallback |-> FALSE]
NotCalled == [called |-> FALSE, tests |-> <<>>]

\* generate_test_cases up to its first provider call: the dispatch on
\* num_tests > 50 and the check of self.client.
GenerateTestCases ==
    /\ gpc = "idle"
    /\ IF num_tests > SmallNumLimit
       THEN /\ gpc' = "batch"
            /\ tests_per_batch' = TestsPerBatch(num_tests)
            /\ UNCHANGED gen_result
       ELSE IF ~client
       THEN /\ \E fb \in GenerateFallbackTests(sample_keys, num_tests) :
                   gen_result' = FallbackReturn(fb)
            /\ gpc' = "done"
            /\ UNCHANGED tests_per_batch
       ELSE /\ gpc' = "attempt"
            /\ UNCHANGED <<tests_per_batch, gen_result>>
    /\ attempt' = 0
    /\ batch_idx' = 0
    /\ all_tests' = <<>>
    /\ used_fallback' = FALSE
    /\ UNCHANGED <<gen_inputs, provider_calls, sleeps, last_valid, fallback_out,
                   batch_fallback, batch_lens, run_vars, tool_vars>>

\* One pass of "for attempt in range(max_retries)": the backoff sleep, the
\* provider call, parsing, validation and the decision; when the loop runs
\* out, the final fallback after it.
Attempt ==
    /\ gpc = "attempt"
    /\ attempt < max_retries
    /\ \E resp \in ProviderResponses(ValidCounts(num_tests)) :
         LET verdict == AttemptVerdict(resp, num_tests, attempt)
             exhausted == (attempt + 1 >= max_retries)
         IN  /\ sleeps' = sleeps \o BackoffSleeps(attempt)
             /\ provider_calls' = provider_calls + 1
             /\ last_valid' = IF resp.kind = "items" THEN resp.valid ELSE -1
             /\ CASE verdict = "valid" ->
                      /\ gen_result' = [tests |-> AcceptedTests(resp, num_tests),
                                        used_fallback |-> FALSE]
                      /\ gpc' = "done"
                      /\ UNCHANGED attempt
                  [] verdict = "fallback" \/ (verdict = "continue" /\ exhausted) ->
                      /\ \E fb \in GenerateFallbackTests(sample_keys, num_tests) :
                            gen_result' = FallbackReturn(fb)
                      /\ gpc' = "done"
                      /\ UNCHANGED attempt
                  [] verdict = "raise" ->
                      /\ gpc' = "raised"
                      /\ UNCHANGED <<attempt, gen_result>>
                  [] OTHER ->
                      /\ attempt' = attempt + 1
                      /\ UNCHANGED <<gpc, gen_result>>
    /\ UNCHANGED <<gen_inputs, batch_idx, tests_per_batch, all_tests, used_fallback,
                   fallback_out,
                   batch_fallback, batch_lens, run_vars, tool_vars>>

\* One pass of "for batch_idx in range(total_batches)": _generate_single_batch
\* (which returns the templates at once when the client is None), the flag,
\* the extend, and the pause before the next batch.
Batch ==
    /\ gpc = "batch"
    /\ batch_idx < Len(tests_per_batch)
    /\ LET batch_test_count == tests_per_batch[batch_idx + 1]
           pause == BatchPause(batch_idx, Len(tests_per_batch))
       IN  IF ~client
           THEN /\ \E fb \in GenerateFallbackTests(sample_keys, batch_test_count) :
                       /\ all_tests' = all_tests \o fb
                       /\ batch_lens' = Append(batch_lens, Len(fb))
                /\ used_fallback' = TRUE
                /\ batch_fallback' = Append(batch_fallback, TRUE)
                /\ batch_idx' = batch_idx + 1
                /\ sleeps' = sleeps \o pause
                /\ UNCHANGED <<gpc, provider_calls, last_valid>>
           ELSE \E resp \in ProviderResponses(BatchValidCounts(batch_test_count)) :
                  /\ provider_calls' = provider_calls + 1
                  /\ last_valid' = IF resp.kind = "items" THEN resp.valid ELSE -1
                  /\ IF SingleBatchRaises(resp)
                     THEN /\ gpc' = "raised"
                          /\ UNCHANGED <<all_tests, used_fallback, batch_fallback, batch_lens,
                                         batch_idx, sleeps>>
                     ELSE \E r \in SingleBatchResults(resp, sample_keys, batch_test_count) :
                            /\ all_tests' = all_tests \o r[1]
                            /\ used_fallback' = (used_fallback \/ r[2])
                            /\ batch_fallback' = Append(batch_fallback, r[2])
                            /\ batch_lens' = Append(batch_lens, Len(r[1]))
                            /\ batch_idx' = batch_idx + 1
                            /\ sleeps' = sleeps \o pause
                            /\ UNCHANGED gpc
    /\ UNCHANGED <<gen_inputs, attempt, tests_per_batch, gen_result, fallback_out,
                   run_vars, tool_vars>>

\* After the batch loop: the shortfall supplement, the cut and the return.
FinishBatched ==
    /\ gpc = "batch"
    /\ batch_idx = Len(tests_per_batch)
    /\ \E r \in BatchedReturn(all_tests, used_fallback, sample_keys, num_tests) :
          gen_result' = [tests |-> r[1], used_fallback |-> r[2]]
    /\ gpc' = "done"
    /\ UNCHANGED <<gen_inputs, attempt, batch_idx, tests_per_batch, all_tests,
                   used_fallback, provider_calls, sleeps, last_valid, fallback_out,
                   batch_fallback, batch_lens, run_vars, tool_vars>>

\* The requested counts: every count of the small-N path and the first of the
\* batched path, and beyond it the counts next to a batch boundary (a last
\* batch of 1, of batch_size - 1 and of batch_size).
NumChoices ==
    {n \in 1..MaxNum :
        \/ n <= SmallNumLimit + 1
        \/ n % batch_size \in {0, 1, batch_size - 1}}

\* The orchestrator before a request.
GenIdle ==
    /\ gpc = "idle"
    /\ attempt = 0
    /\ batch_idx = 0
    /\ tests_per_batch = <<>>
    /\ all_tests = <<>>
    /\ used_fallback = FALSE
    /\ batch_fallback = <<>>
    /\ batch_lens = <<>>
    /\ gen_result = NoResult
    /\ provider_calls = 0
    /\ sleeps = <<>>
    /\ last_valid = -1
    /\ fallback_out = NotCalled

\* No runner in use.
RunIdle ==
    /\ test_cases = <<>>
    /\ target_bodies = {}
    /\ rpc = "idle"
    /\ results = <<>>
    /\ probes = <<>>
    /\ summary = NoSummary

GenInit ==
    /\ num_tests \in NumChoices
    /\ client \in BOOLEAN
    /\ sample_keys \in {0, MaxKeys}
    /\ GenIdle
    /\ RunIdle
    /\ ToolIdle

Init == GenInit

Next == GenerateTestCases \/ Attempt \/ Batch \/ FinishBatched

Spec == Init /\ [][Next]_vars

(***************************************************************************)
(* Actions of the test runner.                                             *)
(***************************************************************************)
\* run_ai_generated_tests is entered on a fresh APITester (self.results = []).
RunAiGeneratedTests ==
    /\ rpc = "idle"
    /\ rpc' = IF test_cases = <<>> THEN "done" ELSE "running"
    /\ results' = <<>>
    /\ probes' = <<>>
    /\ UNCHANGED <<test_cases, target_bodies, summary, gen_vars, tool_vars>>

\* One pass of "for i, test_case in enumerate(test_cases, 1)": test_request on
\* the next case, with what its HTTP call came back with.
TestRequest ==
    /\ rpc = "running"
    /\ Len(probes) < Len(test_cases)
    /\ LET i == Len(probes) + 1
           tc == test_cases[i]
       IN  \E out \in IF tc.method \in SupportedMethods
                      THEN HttpOutcomes(target_bodies) ELSE {NoProbe} :
             LET o == TestRequestOutcome(TestName(tc, i), tc, out)
             IN  /\ probes' = Append(probes, out)
                 /\ results' = IF o.logged THEN LogResult(results, o.result) ELSE results
                 /\ rpc' = IF o.raises THEN "raised"
                           ELSE IF i = Len(test_cases) THEN "done" ELSE "running"
    /\ UNCHANGED <<test_cases, target_bodies, summary, gen_vars, tool_vars>>

\* get_summary, called once the run is over.
GetSummary ==
    /\ rpc = "done"
    /\ ~summary.computed
    /\ summary' = GetSummaryOf(results)
    /\ UNCHANGED <<test_cases, target_bodies, rpc, results, probes, gen_vars, tool_vars>>

RunNext == RunAiGeneratedTests \/ TestRequest \/ GetSummary

\* Runs over lists of plain test cases against a target with one body.
RunInit ==
    /\ num_tests = 1
    /\ client = FALSE
    /\ sample_keys = 0
    /\ GenIdle
    /\ test_cases \in SeqsUpTo(PlainCaseChoices, MaxCases)
    /\ target_bodies = {"{}"}
    /\ rpc = "idle"
    /\ results = <<>>
    /\ probes = <<>>
    /\ summary = NoSummary
    /\ ToolIdle

RunSpec == RunInit /\ [][RunNext]_vars

\* One test case of any shape against a target answering with any body.
EvalInit ==
    /\ num_tests = 1
    /\ client = FALSE
    /\ sample_keys = 0
    /\ GenIdle
    /\ test_cases \in [1..1 -> CaseChoices]
    /\ target_bodies = Bodies
    /\ rpc = "idle"
    /\ results = <<>>
    /\ probes = <<>>
    /\ summary = NoSummary
    /\ ToolIdle

EvalSpec == EvalInit /\ [][RunNext]_vars

(***************************************************************************)
(* find_json_differences on its own.                                       *)
(***************************************************************************)
FindJsonDifferences ==
    /\ tpc = "idle"
    /\ tpc' = "done"
    /\ differences' = find_json_differences(baseline, current, "")
    /\ UNCHANGED <<baseline, current, data_value, data_schema, errors, old_schema, new_schema,
                   breaking, raw_cases, fixed_cases, gen_vars, run_vars>>

DiffInit ==
    /\ num_tests = 1
    /\ client = FALSE
    /\ sample_keys = 0
    /\ GenIdle
    /\ RunIdle
    /\ tpc = "idle"
    /\ baseline \in JsonDocuments
    /\ current \in JsonDocuments
    /\ differences = <<>>
    /\ data_value = None
    /\ data_schema = None
    /\ errors = <<>>
    /\ old_schema = None
    /\ new_schema = None
    /\ breaking = <<>>
    /\ raw_cases = <<>>
    /\ fixed_cases = <<>>

DiffNext == FindJsonDifferences

DiffSpec == DiffInit /\ [][DiffNext]_vars

(***************************************************************************)
(* validate_against_schema on its own.                                     *)
(***************************************************************************)
ValidateAgainstSchema ==
    /\ tpc = "idle"
    /\ tpc' = "done"
    /\ errors' = validate_against_schema(data_value, data_schema)
    /\ UNCHANGED <<baseline, current, differences, data_value, data_schema,
                   old_schema, new_schema, breaking, raw_cases, fixed_cases,
                   gen_vars, run_vars>>

ValidateInit ==
    /\ num_tests = 1
    /\ client = FALSE
    /\ sample_keys = 0
    /\ GenIdle
    /\ RunIdle
    /\ tpc = "idle"
    /\ baseline = None
    /\ current = None
    /\ differences = <<>>
    /\ data_value \in DataValues
    /\ data_schema \in Schemas(SchemaTypes, FieldTypes)
    /\ errors = <<>>
    /\ old_schema = None
    /\ new_schema = None
    /\ breaking = <<>>
    /\ raw_cases = <<>>
    /\ fixed_cases = <<>>

ValidateNext == ValidateAgainstSchema

ValidateSpec == ValidateInit /\ [][ValidateNext]_vars

(***************************************************************************)
(* compare_schemas on its own.                                             *)
(***************************************************************************)
CompareSchemas ==
    /\ tpc = "idle"
    /\ tpc' = "done"
    /\ breaking' = compare_schemas(old_schema, new_schema)
    /\ UNCHANGED <<baseline, current, differences, data_value, data_schema, errors,
                   old_schema, new_schema, raw_cases, fixed_cases, gen_vars, run_vars>>

CompareInit ==
    /\ num_tests = 1
    /\ client = FALSE
    /\ sample_keys = 0
    /\ GenIdle
    /\ RunIdle
    /\ tpc = "idle"
    /\ baseline = None
    /\ current = None
    /\ differences = <<>>
    /\ data_value = None
    /\ data_schema = None
    /\ errors = <<>>
    /\ old_schema \in ContractSchemas
    /\ new_schema \in ContractSchemas
    /\ breaking = <<>>
    /\ raw_cases = <<>>
    /\ fixed_cases = <<>>

CompareNext == CompareSchemas

CompareSpec == CompareInit /\ [][CompareNext]_vars

(***************************************************************************)
(* _generate_fallback_tests on its own, for every count and payload size.  *)
(***************************************************************************)
CallFallback ==
    /\ ~fallback_out.called
    /\ \E fb \in GenerateFallbackTests(sample_keys, num_tests) :
          fallback_out' = [called |-> TRUE, tests |-> fb]
    /\ UNCHANGED <<gen_inputs, gpc, attempt, batch_idx, tests_per_batch, all_tests,
                   used_fallback, batch_fallback, batch_lens, gen_result, provider_calls,
                   sleeps, last_valid, run_vars, tool_vars>>

TemplateInit ==
    /\ num_tests \in 1..MaxNum
    /\ client = FALSE
    /\ sample_keys \in 0..MaxKeys
    /\ GenIdle
    /\ RunIdle
    /\ ToolIdle

TemplateNext == CallFallback

TemplateSpec == TemplateInit /\ [][TemplateNext]_vars

(***************************************************************************)
(* The test cases of one provider response, and template cases.            *)
(***************************************************************************)
\* the validation loop over the parsed "tests" array
ValidateCases ==
    /\ tpc = "idle"
    /\ raw_cases # <<>>
    /\ tpc' = "done"
    /\ fixed_cases' = ValidCasesOf(raw_cases)
    /\ UNCHANGED <<baseline, current, differences, data_value, data_schema, errors,
                   old_schema, new_schema, breaking, raw_cases, gen_vars, run_vars>>

\* no provider response: the cases come from _generate_fallback_tests
FallbackCases ==
    /\ tpc = "idle"
    /\ raw_cases = <<>>
    /\ tpc' = "done"
    /\ fixed_cases' \in SeqsUpTo(TemplateCases, MaxItems) \ {<<>>}
    /\ UNCHANGED <<baseline, current, differences, data_value, data_schema, errors,
                   old_schema, new_schema, breaking, raw_cases, gen_vars, run_vars>>

CasesInit ==
    /\ num_tests = 1
    /\ client = FALSE
    /\ sample_keys = 0
    /\ GenIdle
    /\ RunIdle
    /\ tpc = "idle"
    /\ baseline = None
    /\ current = None
    /\ differences = <<>>
    /\ data_value = None
    /\ data_schema = None
    /\ errors = <<>>
    /\ old_schema = None
    /\ new_schema = None
    /\ breaking = <<>>
    /\ raw_cases \in SeqsUpTo(RawItems, MaxItems)
    /\ fixed_cases = <<>>

CasesNext == ValidateCases \/ FallbackCases

CasesSpec == CasesInit /\ [][CasesNext]_vars

(***************************************************************************)
(* A sample generated from a schema, then validated against that schema.   *)
(***************************************************************************)
GenerateSampleFromSchema ==
    /\ tpc = "idle"
    /\ LET sample == generate_sample_from_schema(data_schema)
       IN  IF sample.raises
           THEN tpc' = "raised" /\ UNCHANGED data_value
           ELSE tpc' = "sampled" /\ data_value' = sample.value
    /\ UNCHANGED <<baseline, current, differences, data_schema, errors, old_schema,
                   new_schema, breaking, raw_cases, fixed_cases, gen_vars, run_vars>>

ValidateSample ==
    /\ tpc = "sampled"
    /\ tpc' = "done"
    /\ errors' = validate_against_schema(data_value, data_schema)
    /\ UNCHANGED <<baseline, current, differences, data_value, data_schema,
                   old_schema, new_schema, breaking, raw_cases, fixed_cases,
                   gen_vars, run_vars>>

SampleInit ==
    /\ num_tests = 1
    /\ client = FALSE
    /\ sample_keys = 0
    /\ GenIdle
    /\ RunIdle
    /\ tpc = "idle"
    /\ baseline = None
    /\ current = None
    /\ differences = <<>>
    /\ data_value = None
    /\ data_schema \in Schemas(SchemaTypes, FieldTypes)
    /\ errors = <<>>
    /\ old_schema = None
    /\ new_schema = None
    /\ breaking = <<>>
    /\ raw_cases = <<>>
    /\ fixed_cases = <<>>

SampleNext == GenerateSampleFromSchema \/ ValidateSample

SampleSpec == SampleInit /\ [][SampleNext]_vars

(***************************************************************************)
(* Properties.                                                             *)
(***************************************************************************)
RECURSIVE SeqSum(_)
SeqSum(q) == IF q = <<>> THEN 0 ELSE Head(q) + SeqSum(Tail(q))

FromSource(tests, src) == {i \in 1..Len(tests) : tests[i].src = src}

\* C1: for every N >= 1 and every sample payload, empty or not, the list the
\* template generator returns holds exactly N test cases.
C1_FallbackReturnsExactlyNum ==
    fallback_out.called => Len(fallback_out.tests) = num_tests

\* C1 witness: a count below the 14 templates always appended (the cut drops
\* some) on an empty payload, and the generator has returned.
C1_Witness ==
    /\ fallback_out.called
    /\ sample_keys = 0
    /\ num_tests = 7
    /\ Len(fallback_out.tests) = 7

\* C2 as claimed: whatever the provider does, generate_test_cases returns
\* exactly N test cases.
C2_Claimed_ReturnsExactlyNum ==
    gpc = "done" => Len(gen_result.tests) = num_tests

\* C2 amended: generate_test_cases returns exactly N test cases, except on the
\* small-N path when the accepted provider response holds v validated items
\* with max(1, floor(0.8 N)) <= v < N: then it returns those v items, with
\* used_fallback False.
C2_ReturnsNumOrAcceptedShort ==
    gpc = "done" =>
        \/ Len(gen_result.tests) = num_tests
        \/ /\ num_tests <= 50
           /\ ~gen_result.used_fallback
           /\ Len(gen_result.tests) = last_valid
           /\ Len(gen_result.tests) >= 1
           /\ 10 * Len(gen_result.tests) >= 8 * num_tests - 9
           /\ Len(gen_result.tests) < num_tests

\* C2 witness: 10 requested, 8 validated items accepted and returned.
C2_Witness ==
    /\ gpc = "done"
    /\ num_tests = 10
    /\ last_valid = 8
    /\ Len(gen_result.tests) = 8
    /\ ~gen_result.used_fallback

\* C3: with the provider unconfigured, generate_test_cases returns exactly N
\* test cases, all from the templates, with used_fallback True and without
\* any provider call, on the small-N path and on the batched path.
C3_UnconfiguredFallsBack ==
    (gpc = "done" /\ ~client) =>
        /\ Len(gen_result.tests) = num_tests
        /\ gen_result.used_fallback = TRUE
        /\ provider_calls = 0
        /\ FromSource(gen_result.tests, "template") = 1..num_tests

\* C3 witness: an unconfigured batched request of three batches has returned.
C3_Witness ==
    /\ gpc = "done"
    /\ ~client
    /\ num_tests = 120
    /\ batch_idx = 3
    /\ gen_result.used_fallback

\* C4: generate_test_cases lets no exception out and terminates with a pair
\* (tests, used_fallback) for every provider outcome on every attempt: no state
\* has an exception escaped, every unfinished request can take a step, the
\* retry and batch loops stay inside their ranges, and when the last provider
\* response was a failure the pair is flagged as fallback and, on the small-N
\* path, holds the templates only.
C4_NeverRaisesAndReturns ==
    /\ gpc # "raised"
    /\ gpc # "done" => ENABLED Next
    /\ gpc = "attempt" => attempt \in 0..2 /\ provider_calls = attempt
    /\ gpc = "batch" => batch_idx \in 0..Len(tests_per_batch)
    /\ gpc = "done" =>
          /\ gen_result.used_fallback \in BOOLEAN
          /\ Len(gen_result.tests) >= 1
          /\ (provider_calls > 0 /\ last_valid = -1) =>
                /\ gen_result.used_fallback
                /\ (num_tests <= 50 =>
                      FromSource(gen_result.tests, "template") = 1..num_tests)

\* C4 witness: three provider calls, the last one a failure, and the call has
\* returned the templates.
C4_Witness ==
    /\ gpc = "done"
    /\ provider_calls = 3
    /\ attempt = 2
    /\ last_valid = -1
    /\ gen_result.used_fallback
    /\ Len(gen_result.tests) = num_tests

\* ceil(n / 40), stated without the code's rounding expression
IsCeilOfFortieth(k, n) == 40 * (k - 1) < n /\ n <= 40 * k

GoodSplit(split, n) ==
    /\ IsCeilOfFortieth(Len(split), n)
    /\ \A i \in 1..Len(split) : split[i] \in 1..40
    /\ SeqSum(split) = n

\* C5: for every N > 50 the batched path splits N into ceil(N/40) batches with
\* sizes between 1 and 40 that sum to N (120: three batches of 40), and the
\* final list holds exactly N test cases whatever the provider supplied per
\* batch.
C5_BatchedSplitAndLength ==
    /\ gpc = "idle" =>
          /\ \A n \in 51..MaxNum : GoodSplit(TestsPerBatch(n), n)
          /\ MaxNum >= 120 => TestsPerBatch(120) = <<40, 40, 40>>
    /\ (num_tests > 50 /\ gpc \in {"batch", "done"}) =>
          /\ GoodSplit(tests_per_batch, num_tests)
          /\ num_tests = 120 => tests_per_batch = <<40, 40, 40>>
    /\ (num_tests > 50 /\ gpc = "done") =>
          /\ batch_idx = Len(tests_per_batch)
          /\ Len(gen_result.tests) = num_tests

\* C5 witness: 120 requested, three batches done, and the returned 120 cases
\* mix provider items with template items (a shortfall was filled).
C5_Witness ==
    /\ gpc = "done"
    /\ num_tests = 120
    /\ batch_idx = 3
    /\ provider_calls = 3
    /\ Len(gen_result.tests) = 120
    /\ FromSource(gen_result.tests, "provider") # {}
    /\ FromSource(gen_result.tests, "template") # {}

(***************************************************************************)
(* Properties of the test runner.                                          *)
(***************************************************************************)
\* The cases test_request has been called on so far.
Executed == 1..Len(probes)

C8_SummaryCounts ==
    summary.computed =>
       LET pass == {i \in 1..Len(results) : results[i].status = "PASS"}
       IN  /\ summary.total = Len(results)
           /\ summary.passed = Cardinality(pass)
           /\ summary.failed = summary.total - summary.passed
           /\ summary.passed + summary.failed = summary.total
           /\ summary.total > 0 =>
                 summary.pass_rate.num * summary.total
                    = summary.passed * 100 * summary.pass_rate.den
           /\ summary.total = 0 => summary.pass_rate.num = 0

\* C8 witness: the summary of a log of three results, one of them PASS.
C8_Witness ==
    /\ summary.computed
    /\ summary.total = 3
    /\ summary.passed = 1
    /\ summary.failed = 2
    /\ results[2].status = "PASS"

\* C9: when the HTTP call returned a response, the logged status is PASS
\* exactly if the status matches (equality, or membership for a list) and the
\* body is valid, the body being validated only if validate_body is set and
\* the status matches, and counted valid otherwise.
C9_PassIffStatusMatchAndBodyValid ==
    \A i \in 1..Len(results) :
       probes[i].kind = "response" =>
          LET tc == test_cases[i]
              es == tc.expected_status
              status_match ==
                 IF es.is_list
                 THEN probes[i].status \in {es.codes[k] : k \in 1..Len(es.codes)}
                 ELSE probes[i].status = es.code
              body_valid ==
                 IF tc.validate_body /\ status_match
                 THEN ValidateResponseBody(probes[i].body, tc.expected_body,
                                           tc.expected_schema).valid
                 ELSE TRUE
          IN  results[i].status = "PASS" <=> (status_match /\ body_valid)

\* C9 witness: the status matched, the body was validated against an expected
\* body it differs from, and FAIL was logged.
C9_Witness ==
    /\ Len(results) = 1
    /\ probes[1].kind = "response"
    /\ probes[1].status = 200
    /\ probes[1].body = "B"
    /\ test_cases[1].validate_body
    /\ test_cases[1].expected_body = "A"
    /\ results[1].status = "FAIL"

\* The executed case expected one of 200 and 404 and got a response with
\* status code c.
ListCaseAnswered(c) ==
    /\ Len(probes) = 1
    /\ test_cases[1].expected_status = ListStatus(<<200, 404>>)
    /\ probes[1].kind = "response"
    /\ probes[1].status = c

Logged(status) == Len(results) = 1 /\ results[1].status = status

\* C10 as claimed: with expected_status = {200, 404}, a 404 yields PASS for
\* every body and every setting of validate_body, expected_body and
\* expected_schema, and a 500 yields FAIL.
C10_Claimed_404PassRegardlessOfBody ==
    /\ ListCaseAnswered(404) => Logged("PASS")
    /\ ListCaseAnswered(500) => Logged("FAIL")

\* C10 amended: with expected_status = {200, 404}, a 500 yields FAIL; a 404
\* yields PASS for every body when validate_body is off; when validate_body is
\* on the body decides: an unparsable body yields FAIL, a non-empty
\* expected_body yields PASS exactly for an equal body, otherwise a non-empty
\* expected_schema yields PASS exactly for a conforming body (and no result
\* at all if the schema itself is invalid: the validator's error leaves the
\* runner), and with neither the result is PASS.
C10_404PassUnlessValidatedBodyFails ==
    /\ ListCaseAnswered(500) => Logged("FAIL")
    /\ ListCaseAnswered(404) =>
          LET tc == test_cases[1]
              body == probes[1].body
          IN  IF ~tc.validate_body THEN Logged("PASS")
              ELSE IF body = "not_json" THEN Logged("FAIL")
              ELSE IF tc.expected_body = "A"
                   THEN Logged(IF body = "A" THEN "PASS" ELSE "FAIL")
              ELSE IF tc.expected_schema = "Malformed"
                   THEN results = <<>> /\ rpc = "raised"
              ELSE IF tc.expected_schema = "Schema_A"
                   THEN Logged(IF body = "A" THEN "PASS" ELSE "FAIL")
              ELSE Logged("PASS")

\* C10 witness: a 404 with an unparsable body passed with validate_body off.
C10_Witness ==
    /\ ListCaseAnswered(404)
    /\ ~test_cases[1].validate_body
    /\ test_cases[1].expected_schema = "Schema_A"
    /\ probes[1].body = "not_json"
    /\ Logged("PASS")

(***************************************************************************)
(* Properties of find_json_differences.                                    *)
(***************************************************************************)
\* C11: find_json_differences(X, X) is the empty list for every JSON-like
\* value X: a scalar, a mapping or a sequence, nested or not.
C11_DiffOfEqualIsEmpty ==
    (tpc = "done" /\ baseline = current) => differences = <<>>

\* C11 witness: a dict holding a list of two items was compared with itself
\* and no difference was reported.
C11_Witness ==
    /\ tpc = "done"
    /\ baseline = current
    /\ baseline.k = "dict"
    /\ "a" \in DOMAIN baseline.d
    /\ baseline.d["a"].k = "list"
    /\ Len(baseline.d["a"].l) = 2
    /\ differences = <<>>

\* Python's x == y: booleans, ints and floats compare by their number, dicts
\* by keys and values, lists item by item.
NumericTypes == {"bool", "int", "float"}

PyNumber(x) == IF x.s = "2" THEN 2 ELSE 1

RECURSIVE PyEq(_, _)
PyEq(x, y) ==
    IF x.k \in NumericTypes /\ y.k \in NumericTypes THEN PyNumber(x) = PyNumber(y)
    ELSE IF x.k # y.k THEN FALSE
    ELSE IF x.k = "dict"
    THEN /\ DOMAIN x.d = DOMAIN y.d
         /\ \A key \in DOMAIN x.d : PyEq(x.d[key], y.d[key])
    ELSE IF x.k = "list"
    THEN /\ Len(x.l) = Len(y.l)
         /\ \A i \in 1..Len(x.l) : PyEq(x.l[i], y.l[i])
    ELSE x.s = y.s

\* A location inside a document: the keys and (0-based) indices leading to it.
KeyStep(key) == [t |-> "key", key |-> key, idx |-> 0]
IndexStep(i) == [t |-> "idx", key |-> "", idx |-> i]
Steps == {KeyStep(key) : key \in Keys} \cup {IndexStep(i) : i \in 0..(MaxListLen - 1)}
Locations == UNION {[1..n -> Steps] : n \in 0..2}

HasChild(x, step) ==
    IF step.t = "key" THEN x.k = "dict" /\ step.key \in DOMAIN x.d
    ELSE x.k = "list" /\ step.idx + 1 \in 1..Len(x.l)

Child(x, step) == IF step.t = "key" THEN x.d[step.key] ELSE x.l[step.idx + 1]

RECURSIVE Exists(_, _)
Exists(x, loc) ==
    loc = <<>> \/ (HasChild(x, Head(loc)) /\ Exists(Child(x, Head(loc)), Tail(loc)))

RECURSIVE At(_, _)
At(x, loc) == IF loc = <<>> THEN x ELSE At(Child(x, Head(loc)), Tail(loc))

RECURSIVE PathOf(_)
PathOf(loc) ==
    IF loc = <<>> THEN ""
    ELSE LET step == loc[Len(loc)]
             parent == PathOf(SubSeq(loc, 1, Len(loc) - 1))
         IN  IF step.t = "key" THEN KeyPath(parent, step.key)
             ELSE IndexPath(parent, step.idx)

\* The difference of x and y lies below the location, not at it: both hold a
\* dict there, or both a list of the same length.
ComparedInside(u, w) ==
    u.k = w.k /\ (u.k = "dict" \/ (u.k = "list" /\ Len(u.l) = Len(w.l)))

\* x and y differ at loc: one of them only has the location, or both have it
\* and hold different values there that are not compared item by item.
DiffersAt(x, y, loc) ==
    \/ Exists(x, loc) # Exists(y, loc)
    \/ /\ Exists(x, loc)
       /\ Exists(y, loc)
       /\ At(x, loc) # At(y, loc)
       /\ ~ComparedInside(At(x, loc), At(y, loc))

ReportedPaths(diffs) == {diffs[i].path : i \in 1..Len(diffs)}

\* the path of loc or of a location above it is reported
Covered(diffs, loc) ==
    \E n \in 0..Len(loc) : PathOrRoot(PathOf(SubSeq(loc, 1, n))) \in ReportedPaths(diffs)

\* a difference as the call with exchanged arguments reports it
Mirrored(e) ==
    [path |-> e.path, baseline_value |-> e.current_value,
     current_value |-> e.baseline_value,
     change_type |-> CASE e.change_type = "added" -> "removed"
                       [] e.change_type = "removed" -> "added"
                       [] OTHER -> e.change_type]

\* C12: for X != Y, find_json_differences(X, Y) is not empty, every location
\* at which X and Y differ is reported (by its own path or the path of a
\* location above it, and nothing else is reported), and the call with X and
\* Y exchanged reports the same paths, with 'added' and 'removed' exchanged
\* and the baseline and current values swapped.
C12_DiffNonEmptyCoveringSymmetric ==
    (tpc = "done" /\ ~PyEq(baseline, current)) =>
       LET back == find_json_differences(current, baseline, "")
       IN  /\ differences # <<>>
           /\ \A loc \in Locations :
                 DiffersAt(baseline, current, loc) => Covered(differences, loc)
           /\ \A i \in 1..Len(differences) :
                 \E loc \in Locations :
                    /\ differences[i].path = PathOrRoot(PathOf(loc))
                    /\ DiffersAt(baseline, current, loc)
           /\ ReportedPaths(back) = ReportedPaths(differences)
           /\ {Mirrored(differences[i]) : i \in 1..Len(differences)}
                 = {back[i] : i \in 1..Len(back)}

\* C12 witness: two dicts, one key removed and one value changed inside a
\* nested list, reported as two differences.
C12_Witness ==
    /\ tpc = "done"
    /\ baseline.k = "dict"
    /\ current.k = "dict"
    /\ DOMAIN baseline.d = {"a"}
    /\ DOMAIN current.d = {"a"}
    /\ baseline.d["a"].k = "dict"
    /\ current.d["a"].k = "dict"
    /\ DOMAIN baseline.d["a"].d = {"a", "b"}
    /\ DOMAIN current.d["a"].d = {"a"}
    /\ Len(differences) = 2
    /\ differences[1].change_type = "value_changed"
    /\ differences[1].path = "a.a"
    /\ differences[2].change_type = "removed"
    /\ differences[2].path = "a.b"

(***************************************************************************)
(* Properties of validate_against_schema.                                  *)
(***************************************************************************)
\* the errors of one type reported for one path
ErrorsFor(errs, type, path) ==
    {i \in 1..Len(errs) : errs[i].type = type /\ errs[i].path = path}

\* C13: for an object schema and a mapping that lacks a field listed in
\* required, exactly one missing_required_field violation is reported for
\* that field, whether the other fields are present, absent or of the wrong
\* type (and none for a required field the mapping has).
C13_OneViolationPerMissingRequiredField ==
    (tpc = "done" /\ data_schema.type = "object" /\ data_value.k = "dict") =>
       \A i \in 1..Len(data_schema.required) :
          LET field == data_schema.required[i]
              n == Cardinality(ErrorsFor(errors, "missing_required_field", field))
          IN  IF field \in DOMAIN data_value.d THEN n = 0 ELSE n = 1

\* C13 witness: email is required and missing, name is required, present and
\* of the wrong type: one missing_required_field for email and one
\* type_mismatch for name.
C13_Witness ==
    /\ tpc = "done"
    /\ data_schema.type = "object"
    /\ data_schema.required = <<"name", "email">>
    /\ data_value.k = "dict"
    /\ DOMAIN data_value.d = {"name"}
    /\ "name" \in DOMAIN data_schema.properties
    /\ data_schema.properties["name"] = "string"
    /\ data_value.d["name"].k = "int"
    /\ Len(errors) = 2
    /\ errors[1].type = "missing_required_field"
    /\ errors[1].path = "email"
    /\ errors[2].type = "type_mismatch"

(***************************************************************************)
(* Properties of compare_schemas.                                          *)
(***************************************************************************)
ListItems(l) == {l[i] : i \in 1..Len(l)}

\* the breaking changes of one type, each with the field it names
Reported(changes, type) ==
    {changes[i].field : i \in {j \in 1..Len(changes) : changes[j].type = type}}

CountOf(changes, type) ==
    Cardinality({i \in 1..Len(changes) : changes[i].type = type})

\* C14: compare_schemas reports exactly one field_removed per field of
\* old.properties missing in new.properties, one field_type_changed per
\* field of both whose declared type differs, one field_made_required per
\* field of new.required not in old.required, and nothing else; removing the
\* required string field "email" alone gives exactly one field_removed for
\* "email", and a schema compared with itself gives no breaking change.
C14_ExactlyTheBreakingChanges ==
    tpc = "done" =>
       LET old_props == old_schema.properties
           new_props == new_schema.properties
           removed == DOMAIN old_props \ DOMAIN new_props
           retyped == {f \in DOMAIN old_props \cap DOMAIN new_props :
                          old_props[f] # new_props[f]}
           required == ListItems(new_schema.required) \ ListItems(old_schema.required)
           email_removed ==
              /\ "email" \in DOMAIN old_props
              /\ old_props["email"] = "string"
              /\ InList("email", old_schema.required)
              /\ DOMAIN new_props = DOMAIN old_props \ {"email"}
              /\ \A f \in DOMAIN new_props : new_props[f] = old_props[f]
              /\ ListItems(new_schema.required) = ListItems(old_schema.required) \ {"email"}
       IN  /\ Reported(breaking, "field_removed") = removed
           /\ CountOf(breaking, "field_removed") = Cardinality(removed)
           /\ Reported(breaking, "field_type_changed") = retyped
           /\ CountOf(breaking, "field_type_changed") = Cardinality(retyped)
           /\ \A i \in 1..Len(breaking) :
                 breaking[i].type = "field_type_changed" =>
                    /\ breaking[i].old_type = old_props[breaking[i].field]
                    /\ breaking[i].new_type = new_props[breaking[i].field]
           /\ Reported(breaking, "field_made_required") = required
           /\ CountOf(breaking, "field_made_required") = Cardinality(required)
           /\ Len(breaking) = Cardinality(removed) + Cardinality(retyped)
                                 + Cardinality(required)
           /\ email_removed =>
                 /\ Len(breaking) = 1
                 /\ breaking[1].type = "field_removed"
                 /\ breaking[1].field = "email"
           /\ old_schema = new_schema => breaking = <<>>

\* C14 witness: the required string field "email" was removed, "name" was
\* kept as it is, and the one breaking change is field_removed for "email".
C14_Witness ==
    /\ tpc = "done"
    /\ DOMAIN old_schema.properties = {"email", "name"}
    /\ old_schema.properties["email"] = "string"
    /\ old_schema.required = <<"email", "name">>
    /\ DOMAIN new_schema.properties = {"name"}
    /\ new_schema.properties["name"] = old_schema.properties["name"]
    /\ new_schema.required = <<"name">>
    /\ Len(breaking) = 1
    /\ breaking[1].type = "field_removed"
    /\ breaking[1].field = "email"

(***************************************************************************)
(* Properties of the category counts of the template generator.            *)
(***************************************************************************)
CategoryCount(tests, c) == Cardinality({i \in 1..Len(tests) : tests[i].category = c})

CategoryCounts(tests) == [c \in Categories |-> CategoryCount(tests, c)]

\* round(0.2 * n): n/5 to the nearest integer (n/5 is never half-way)
RoundedFifth(n) == (2 * n + 5) \div 10

\* floor(0.2 * n)
FlooredFifth(n) == n \div 5

\* C15 as claimed: for every N >= 25 the returned list holds at least
\* max(5, round(0.2*N)) security_test cases.
C15_Claimed_SecurityAtLeastRounded ==
    (fallback_out.called /\ num_tests >= 25) =>
       CategoryCount(fallback_out.tests, "security_test") >= Max(5, RoundedFifth(num_tests))

\* C15 amended: for every N >= 25 the returned list holds exactly
\* max(5, floor(0.2*N)) security_test cases (N = 50: 10); that is at least
\* max(5, round(0.2*N)) when N mod 5 is 0, 1 or 2, and one less than it when
\* N mod 5 is 3 or 4.
C15_SecurityIsFlooredShare ==
    (fallback_out.called /\ num_tests >= 25) =>
       LET security == CategoryCount(fallback_out.tests, "security_test")
       IN  /\ security = Max(5, FlooredFifth(num_tests))
           /\ num_tests = 50 => security = 10
           /\ num_tests % 5 \in {0, 1, 2} => security >= Max(5, RoundedFifth(num_tests))
           /\ num_tests % 5 \in {3, 4} => security = Max(5, RoundedFifth(num_tests)) - 1

\* C15 witness: 28 requested, 5 security tests returned (round(5.6) is 6).
C15_Witness ==
    /\ fallback_out.called
    /\ num_tests = 28
    /\ CategoryCount(fallback_out.tests, "security_test") = 5

C17_Claimed_ThirtyWithFiveEdgeCases ==
    (fallback_out.called /\ num_tests = 30) =>
       /\ Len(fallback_out.tests) = 30
       /\ CategoryCounts(fallback_out.tests) =
             [happy_path |-> 8, negative_test |-> 6, security_test |-> 6,
              edge_case |-> 5, fuzz_test |-> 6]

\* C17 amended: for N = 30 the list holds 30 test cases: 8 happy_path,
\* 6 negative_test, 6 security_test, 4 edge_case (int(30 * 0.15) = 4) and
\* 6 fuzz_test.
C17_ThirtyWithFourEdgeCases ==
    (fallback_out.called /\ num_tests = 30) =>
       /\ Len(fallback_out.tests) = 30
       /\ CategoryCounts(fallback_out.tests) =
             [happy_path |-> 8, negative_test |-> 6, security_test |-> 6,
              edge_case |-> 4, fuzz_test |-> 6]

\* C17 witness: 30 requested on a payload with keys, and the generator has
\* returned 4 edge cases.
C17_Witness ==
    /\ fallback_out.called
    /\ num_tests = 30
    /\ sample_keys > 0
    /\ CategoryCount(fallback_out.tests, "edge_case") = 4

(***************************************************************************)
(* Properties of the acceptance threshold, the retries and the flag.       *)
(***************************************************************************)
\* max(1, floor(0.8 * n))
EightyPercent(n) == Max(1, (4 * n) \div 5)

\* a provider-configured request on the small-N path
SmallPath == client /\ num_tests <= 50

\* the latest provider response held validated items, last_valid of them
Validated == provider_calls > 0 /\ last_valid >= 0

\* C18: on the small-N path with the provider configured, an attempt with v
\* validated items is accepted exactly if v >= max(1, floor(0.8*N)); the
\* accepted result is N of the validated items if v >= N and all v of them
\* otherwise, with used_fallback False; below the threshold the attempt is
\* retried, or on the last attempt replaced by the N template cases with
\* used_fallback True.
C18_AcceptedIffEightyPercent ==
    (SmallPath /\ Validated) =>
       IF last_valid >= EightyPercent(num_tests)
       THEN /\ gpc = "done"
            /\ gen_result.used_fallback = FALSE
            /\ Len(gen_result.tests) = Min(last_valid, num_tests)
            /\ FromSource(gen_result.tests, "provider") = 1..Len(gen_result.tests)
       ELSE IF provider_calls < 3
       THEN /\ gpc = "attempt"
            /\ attempt = provider_calls
            /\ gen_result = NoResult
            /\ ENABLED Attempt
       ELSE /\ gpc = "done"
            /\ gen_result.used_fallback = TRUE
            /\ Len(gen_result.tests) = num_tests
            /\ FromSource(gen_result.tests, "template") = 1..num_tests

\* C18 witness: 20 requested, the first attempt was retried and the second
\* returned 16 validated items, which were accepted as they are.
C18_Witness ==
    /\ gpc = "done"
    /\ client
    /\ num_tests = 20
    /\ provider_calls = 2
    /\ last_valid = 16
    /\ Len(gen_result.tests) = 16
    /\ gen_result.used_fallback = FALSE

\* the waits before the attempts made so far: none before the first, 2 s
\* before the second, 4 s before the third
WaitsBefore(calls) == SubSeq(<<2, 4>>, 1, Max(0, calls - 1))

\* the latest attempt failed: no validated items, or too few of them
LatestFailed == last_valid < EightyPercent(num_tests)

\* C19: on the small-N path the provider is called at most 3 times; a further
\* attempt starts only after the one before it failed and after a wait of 2 s
\* (before the second) or 4 s (before the third), none before the first; and
\* the templates are used only after the third attempt failed, or when the
\* provider is unconfigured.
C19_ThreeAttemptsWithBackoff ==
    num_tests <= 50 =>
       /\ provider_calls <= 3
       /\ sleeps = WaitsBefore(provider_calls)
       /\ (gpc = "attempt" /\ provider_calls > 0) => LatestFailed
       /\ (gpc = "done" /\ gen_result.used_fallback) =>
             \/ ~client /\ provider_calls = 0
             \/ client /\ provider_calls = 3 /\ LatestFailed
       /\ (gpc = "done" /\ ~gen_result.used_fallback) =>
             client /\ provider_calls \in 1..3 /\ ~LatestFailed

\* C19 witness: two attempts failed, the third was made after waits of 2 s
\* and 4 s and was accepted.
C19_Witness ==
    /\ gpc = "done"
    /\ num_tests <= 50
    /\ provider_calls = 3
    /\ sleeps = <<2, 4>>
    /\ gen_result.used_fallback = FALSE
    /\ Len(gen_result.tests) = num_tests

\* at least one batch reported that it used the template generator
SomeBatchFellBack == \E i \in 1..Len(batch_fallback) : batch_fallback[i]

\* C20 as claimed: on the batched path the returned used_fallback is True
\* exactly when at least one batch reported fallback.
C20_Claimed_FlagIsOrOfBatches ==
    (gpc = "done" /\ num_tests > 50) =>
       (gen_result.used_fallback <=> SomeBatchFellBack)

\* C20 amended: on the batched path the returned used_fallback is True
\* exactly when at least one batch reported fallback or the batches together
\* supplied fewer than N test cases, so that the shortfall was supplemented
\* from the templates after the loop; every batch reports one flag.
C20_FlagIsOrOfBatchesOrSupplement ==
    /\ num_tests > 50 => Len(batch_fallback) = batch_idx
    /\ (gpc = "done" /\ num_tests > 50) =>
          /\ Len(batch_fallback) = Len(tests_per_batch)
          /\ gen_result.used_fallback <=>
                (SomeBatchFellBack \/ Len(all_tests) < num_tests)

\* C20 witness: 80 requested, both batches accepted 28 provider items without
\* fallback, and the 24 missing cases came from the templates: flag True.
C20_Witness ==
    /\ gpc = "done"
    /\ num_tests = 80
    /\ batch_fallback = <<FALSE, FALSE>>
    /\ Len(all_tests) = 56
    /\ Len(gen_result.tests) = 80
    /\ gen_result.used_fallback = TRUE

\* the batches finished so far
Finished == 1..Len(batch_lens)

\* the batched path, with one entry of every ghost list per finished batch
BatchedPath ==
    /\ num_tests > SmallNumLimit
    /\ Len(batch_lens) = batch_idx
    /\ Len(batch_fallback) = batch_idx

\* C21 as claimed: every finished batch has contributed at least its
\* requested number of test cases, whatever number of valid items the provider
\* returned for it.
C21_Claimed_BatchContributesRequested ==
    BatchedPath =>
       \A i \in Finished : batch_lens[i] >= tests_per_batch[i]

\* C21 amended: a finished batch that used the template generator has
\* contributed exactly its requested number; a batch whose provider response
\* held at least 70% of the requested number of valid items is accepted as it
\* is, without supplement, and contributes those items only, which may be
\* fewer than requested; the remainder is supplied after the last batch, when
\* the aggregate is cut or padded to N.
C21_BatchSupplementedOnlyBelowSeventyPercent ==
    /\ num_tests > SmallNumLimit => BatchedPath
    /\ BatchedPath =>
          /\ \A i \in Finished :
                IF batch_fallback[i]
                THEN batch_lens[i] = tests_per_batch[i]
                ELSE 10 * batch_lens[i] >= 7 * tests_per_batch[i]
          /\ (batch_idx > 0 /\ last_valid >= 0) =>
                IF 10 * last_valid >= 7 * tests_per_batch[batch_idx]
                THEN /\ ~batch_fallback[batch_idx]
                     /\ batch_lens[batch_idx] = last_valid
                ELSE /\ batch_fallback[batch_idx]
                     /\ batch_lens[batch_idx] = tests_per_batch[batch_idx]
          /\ gpc = "done" => Len(gen_result.tests) = num_tests

\* C21 witness: 80 requested; the first batch held 27 valid items of 40 and
\* was supplemented to 40, the second held 28 and was accepted with 28.
C21_Witness ==
    /\ num_tests = 80
    /\ client
    /\ batch_idx = 2
    /\ batch_fallback = <<TRUE, FALSE>>
    /\ batch_lens = <<40, 28>>
    /\ last_valid = 28
    /\ FromSource(all_tests, "provider") = (1..27) \cup (41..68)

\* the positions of the aggregate that the latest finished batch supplied
LatestBatchItems ==
    (Len(all_tests) - batch_lens[batch_idx] + 1)..Len(all_tests)

\* the latest batch got no validated items at all: the call raised, the text
\* did not parse, or the parsed value held no list of tests
LatestBatchUnusable == client /\ batch_idx > 0 /\ last_valid = -1

\* the latest batch got validated items, fewer than 70% of its request
LatestBatchTooFew ==
    /\ client /\ batch_idx > 0 /\ last_valid >= 0
    /\ 10 * last_valid < 7 * tests_per_batch[batch_idx]

\* C22: on the batched path every batch makes at most one provider call and
\* none is retried (no backoff wait, no second attempt); a provider exception,
\* unparsable output or a validated count below 70% of the batch's request
\* leads at once to the template generator, never to an exception or another
\* call; so the number of provider calls for N > 50 is at most ceil(N/40).
C22_OneCallPerBatchNoRetry ==
    BatchedPath =>
       /\ provider_calls = (IF client THEN batch_idx ELSE 0)
       /\ \E k \in 1..num_tests :
             IsCeilOfFortieth(k, num_tests) /\ provider_calls <= k
       /\ attempt = 0
       /\ \A i \in 1..Len(sleeps) : sleeps[i] = 1
       /\ gpc # "raised"
       /\ LatestBatchUnusable =>
             /\ batch_fallback[batch_idx]
             /\ batch_lens[batch_idx] = tests_per_batch[batch_idx]
             /\ LatestBatchItems \subseteq FromSource(all_tests, "template")
       /\ LatestBatchTooFew =>
             /\ batch_fallback[batch_idx]
             /\ Cardinality(LatestBatchItems \cap FromSource(all_tests, "provider"))
                   = last_valid
             /\ Cardinality(LatestBatchItems \cap FromSource(all_tests, "template"))
                   = tests_per_batch[batch_idx] - last_valid

\* C22 witness: 120 requested, three batches, three provider calls; the third
\* response was unusable and its 40 cases are all template cases.
C22_Witness ==
    /\ gpc = "done"
    /\ num_tests = 120
    /\ client
    /\ provider_calls = 3
    /\ last_valid = -1
    /\ batch_fallback = <<FALSE, TRUE, TRUE>>
    /\ batch_lens = <<40, 40, 40>>
    /\ FromSource(all_tests, "template") \cap (81..120) = 81..120

\* the position in the aggregate before the items of batch i
RECURSIVE BatchStart(_)
BatchStart(i) == IF i <= 1 THEN 0 ELSE BatchStart(i - 1) + batch_lens[i - 1]

\* the positions of the aggregate that batch i supplied
BatchItems(i) == (BatchStart(i) + 1)..(BatchStart(i) + batch_lens[i])

\* the pauses taken once k of total batches are finished: one after every
\* batch but the last
PausesAfter(k, total) == [i \in 1..Min(k, total - 1) |-> 1]

\* The aggregate is the batch results one after another in index order: batch
\* i fills the positions after those of the batches before it, with its
\* provider items first and its template supplement behind them.
AggregateIsConcatenation ==
    /\ Len(all_tests) = SeqSum(batch_lens)
    /\ \A i \in Finished :
          \A p, q \in BatchItems(i) :
             (p < q /\ all_tests[q].src = "provider") => all_tests[p].src = "provider"
    /\ \A i \in Finished :
          ~batch_fallback[i] => BatchItems(i) \subseteq FromSource(all_tests, "provider")

\* One step of the batch loop: the next index, the aggregate extended at its
\* end by that batch's result, the batch's flag recorded, and the pause taken
\* unless it was the last batch.
NextBatchResolved ==
    /\ gpc = "batch"
    /\ batch_idx' = batch_idx + 1
    /\ Len(batch_lens') = batch_idx'
    /\ Len(all_tests') = Len(all_tests) + batch_lens'[batch_idx']
    /\ SubSeq(all_tests', 1, Len(all_tests)) = all_tests
    /\ SubSeq(batch_lens', 1, batch_idx) = batch_lens
    /\ SubSeq(batch_fallback', 1, batch_idx) = batch_fallback
    /\ used_fallback' = (used_fallback \/ batch_fallback'[batch_idx'])
    /\ sleeps' = sleeps \o (IF batch_idx' < Len(tests_per_batch) THEN <<1>> ELSE <<>>)

\* C23: on the batched path the batches are processed in increasing index
\* order, one in every step of the loop and each with its provider call,
\* validation and template fallback finished before the next begins; the
\* aggregate is the concatenation of the batch results in index order; and a
\* pause of 1 s is taken between consecutive batches, none after the last.
C23_BatchesInIndexOrder ==
    /\ [](BatchedPath =>
            /\ batch_idx <= Len(tests_per_batch)
            /\ AggregateIsConcatenation
            /\ sleeps = PausesAfter(batch_idx, Len(tests_per_batch))
            /\ gpc = "done" => batch_idx = Len(tests_per_batch))
    /\ [][num_tests > SmallNumLimit =>
            \/ NextBatchResolved
            \/ UNCHANGED <<batch_idx, all_tests, batch_lens, batch_fallback, sleeps>>]_vars

\* C23 witness: 120 requested; the three batches are done, the second with 28
\* provider items only, the third with 27 provider items and 13 template
\* cases behind them; two pauses were taken.
C23_Witness ==
    /\ gpc = "done"
    /\ num_tests = 120
    /\ batch_idx = 3
    /\ batch_lens = <<40, 28, 40>>
    /\ batch_fallback = <<FALSE, FALSE, TRUE>>
    /\ FromSource(all_tests, "template") = 96..108
    /\ sleeps = <<1, 1>>

\* a expected_status that is one code or a non-empty list of codes
WellFormedStatus(st) == st.is_list => Len(st.codes) > 0

\* C24 as claimed: every test case handed back, made of a provider item or
\* taken from the templates, has a method among GET, POST, PUT, PATCH, DELETE
\* and an expected_status that is a single code or a non-empty list of codes.
C24_Claimed_MethodSupportedStatusWellFormed ==
    tpc = "done" =>
       \A i \in 1..Len(fixed_cases) :
          /\ fixed_cases[i].method \in SupportedMethods
          /\ WellFormedStatus(fixed_cases[i].expected_status)

\* C24, the part that holds: every test case has an expected_status that is
\* a single code or a non-empty list of codes, and every template case has a
\* method among the five; a provider item keeps whatever method string it
\* came with, in upper case.
C24_StatusWellFormedMethodUppercased ==
    tpc = "done" =>
       /\ \A i \in 1..Len(fixed_cases) :
             /\ WellFormedStatus(fixed_cases[i].expected_status)
             /\ fixed_cases[i].method = Upper(fixed_cases[i].method)
       /\ raw_cases = <<>> =>
             \A i \in 1..Len(fixed_cases) : fixed_cases[i].method \in SupportedMethods
       /\ raw_cases # <<>> =>
             \A i \in 1..Len(fixed_cases) : ~fixed_cases[i].expected_status.is_list

\* C24 witness: a provider item with the method "head" and a list as
\* expected_status came back as a test case with method HEAD and code 200.
C24_Witness ==
    /\ tpc = "done"
    /\ Len(raw_cases) = 1
    /\ raw_cases[1].method = RawMethod("str", "head")
    /\ raw_cases[1].expected_status.k = "list"
    /\ fixed_cases = <<TestCase("HEAD", IntStatus(200))>>

\* Case i was sent, a response came back whose status matches and whose body
\* parses, and the case asks for body validation.
BodyValidated(i) ==
    /\ i <= Len(probes)
    /\ probes[i].kind = "response"
    /\ probes[i].body # "not_json"
    /\ test_cases[i].validate_body
    /\ LET es == test_cases[i].expected_status
       IN  IF es.is_list
           THEN probes[i].status \in {es.codes[k] : k \in 1..Len(es.codes)}
           ELSE probes[i].status = es.code

SchemaMessages == {"Response matches schema", "Schema validation failed"}

\* The verdict on case i comes from the comparison with expected_body alone:
\* a result is logged, PASS only for a body equal to expected_body, and the
\* message is not one of the schema check.
JudgedByExpectedBody(i) ==
    /\ rpc # "raised"
    /\ Len(results) >= i
    /\ results[i].status = "PASS" <=> probes[i].body = test_cases[i].expected_body
    /\ results[i].details.message \notin SchemaMessages

\* C25 as claimed: with validate_body set, a matching status and a body that
\* parses, a case that carries an expected_body, the empty mapping included,
\* passes only if the parsed body equals expected_body, and its
\* expected_schema is not consulted.
C25_Claimed_ExpectedBodyAlwaysCompared ==
    \A i \in 1..Len(probes) :
       (BodyValidated(i) /\ test_cases[i].expected_body # "None") =>
          JudgedByExpectedBody(i)

\* C25, the part that holds: the comparison is made for every expected_body
\* that is not empty; an expected_body that is the empty mapping is treated
\* as absent, so the verdict is the one of the same case without
\* expected_body (its expected_schema is consulted; without one the body
\* counts as valid).
C25_NonEmptyExpectedBodyCompared ==
    \A i \in 1..Len(probes) :
       BodyValidated(i) =>
          IF test_cases[i].expected_body \notin {"None", "{}"}
          THEN JudgedByExpectedBody(i)
          ELSE LET tc == test_cases[i]
                   o == TestRequestOutcome(TestName(tc, i),
                                           [tc EXCEPT !.expected_body = "None"],
                                           probes[i])
               IN  IF o.raises THEN rpc = "raised" /\ Len(results) < i
                   ELSE Len(results) >= i /\ results[i] = o.result

\* C25 witness: expected_body is the empty mapping, the response body is the
\* non-empty "A", no schema is given, and the case passed.
C25_Witness ==
    /\ BodyValidated(1)
    /\ test_cases[1].expected_body = "{}"
    /\ test_cases[1].expected_schema = "None"
    /\ probes[1].body = "A"
    /\ Len(results) = 1
    /\ results[1].status = "PASS"
    /\ results[1].details.message = "No body validation specified"

\* loc is strictly above loc2
Above(loc, loc2) ==
    Len(loc) < Len(loc2) /\ SubSeq(loc2, 1, Len(loc)) = loc

\* The comparison arrives at loc: both documents have the location, and at
\* every location above it both hold dicts or both hold lists of one length.
Reached(x, y, loc) ==
    /\ Exists(x, loc)
    /\ Exists(y, loc)
    /\ \A n \in 0..(Len(loc) - 1) :
          ComparedInside(At(x, SubSeq(loc, 1, n)), At(y, SubSeq(loc, 1, n)))

\* the differences reported with the path of loc
ReportedAt(diffs, loc) == {i \in 1..Len(diffs) : diffs[i].path = PathOrRoot(PathOf(loc))}

\* some difference is reported at loc or beneath it
ReportedWithin(diffs, loc) ==
    \E loc2 \in Locations :
       /\ loc2 = loc \/ Above(loc, loc2)
       /\ ReportedAt(diffs, loc2) # {}

\* the path of the item at 0-based position j of the sequence at loc
Bracketed(loc, j) == PathOf(loc) \o "[" \o ToString(j) \o "]"

\* C26: where find_json_differences meets two sequences of different lengths
\* it reports exactly one difference for that path, of type
\* array_length_changed, and none beneath it; where the lengths are equal it
\* reports no array_length_changed for the path and compares the items
\* index by index: a pair of items that differ is reported at or beneath the
\* path with the bracketed index, a pair of equal items is not.
C26_LengthChangeOnceElseIndexWise ==
    tpc = "done" =>
       \A loc \in Locations :
          (/\ Reached(baseline, current, loc)
           /\ At(baseline, loc).k = "list"
           /\ At(current, loc).k = "list") =>
             LET bl == At(baseline, loc).l
                 cl == At(current, loc).l
             IN  IF Len(bl) # Len(cl)
                 THEN /\ Cardinality(ReportedAt(differences, loc)) = 1
                      /\ \A i \in ReportedAt(differences, loc) :
                            differences[i].change_type = "array_length_changed"
                      /\ \A loc2 \in Locations :
                            Above(loc, loc2) => ReportedAt(differences, loc2) = {}
                 ELSE /\ ReportedAt(differences, loc) = {}
                      /\ \A j \in 0..(Len(bl) - 1) :
                            LET item == loc \o <<IndexStep(j)>>
                            IN  /\ PathOf(item) = Bracketed(loc, j)
                                /\ (bl[j + 1] # cl[j + 1])
                                      <=> ReportedWithin(differences, item)
                      /\ \A i \in 1..Len(differences) :
                            differences[i].change_type = "array_length_changed" =>
                               differences[i].path # PathOrRoot(PathOf(loc))

\* C26 witness: a list of length 1 against one of length 2 inside a dict,
\* reported once as array_length_changed at the key.
C26_Witness ==
    /\ tpc = "done"
    /\ baseline.k = "dict"
    /\ Len(differences) = 1
    /\ differences[1].path = "a"
    /\ differences[1].change_type = "array_length_changed"
    /\ differences[1].baseline_value = PyStr("array[1]")
    /\ differences[1].current_value = PyStr("array[2]")

PrimitiveTypes == {"string", "number", "integer", "boolean", "object", "array"}

\* the JSON type of a value agrees with a declared type: a boolean is no
\* number and no integer
JsonAgrees(value, declared) ==
    CASE declared = "string"  -> value.k = "str"
      [] declared = "number"  -> value.k \in {"int", "float"}
      [] declared = "integer" -> value.k = "int"
      [] declared = "boolean" -> value.k = "bool"
      [] declared = "object"  -> value.k = "dict"
      [] declared = "array"   -> value.k = "list"

\* the value agrees with a declared type as isinstance sees it: a Python bool
\* is an int
PythonAgrees(value, declared) ==
    JsonAgrees(value, declared)
       \/ (value.k = "bool" /\ declared \in {"number", "integer"})

\* an object schema all of whose property schemas are mappings, validated
\* against a mapping
ObjectValidated ==
    /\ tpc = "done"
    /\ data_schema.type = "object"
    /\ data_value.k = "dict"
    /\ \A f \in DOMAIN data_schema.properties :
          data_schema.properties[f] # "not_a_dict"

\* the properties that are present in the data and declare one of the six types
CheckedFields ==
    {f \in DOMAIN data_schema.properties \cap DOMAIN data_value.d :
        DeclaredType(data_schema.properties[f]) \in PrimitiveTypes}

\* one type_mismatch for field f, naming the declared and the actual type
OneMismatch(f) ==
    /\ Cardinality(ErrorsFor(errors, "type_mismatch", f)) = 1
    /\ \A i \in ErrorsFor(errors, "type_mismatch", f) :
          /\ errors[i].expected = DeclaredType(data_schema.properties[f])
          /\ errors[i].actual = data_value.d[f].k

\* field f holds a mapping that lacks the "id" its own schema requires
NestedLacksRequired(f) ==
    /\ data_schema.properties[f] = "object_requiring_id"
    /\ data_value.d[f].k = "dict"
    /\ "id" \notin DOMAIN data_value.d[f].d

\* C27 as claimed: for an object schema, one type_mismatch (path, expected,
\* actual) is reported for every present property whose value's JSON type
\* disagrees with the declared type, none for one that agrees; a boolean
\* disagrees with integer and with number; and a nested object value is
\* checked against the nested schema, so that a required field it lacks is
\* reported.
C27_Claimed_JsonTypeMismatchAndNestedChecks ==
    ObjectValidated =>
       \A f \in CheckedFields :
          /\ IF JsonAgrees(data_value.d[f], DeclaredType(data_schema.properties[f]))
             THEN ErrorsFor(errors, "type_mismatch", f) = {}
             ELSE OneMismatch(f)
          /\ NestedLacksRequired(f) =>
                \E i \in 1..Len(errors) : errors[i].type = "missing_required_field"
                                            /\ errors[i].expected = "id"

\* C27, the part that holds: one type_mismatch is reported for every present
\* property whose value is no instance of the Python type of the declared
\* type, none otherwise; a boolean passes as integer and as number; and
\* nothing inside a nested value is checked: every violation is about a
\* top-level field.
C27_PythonTypeMismatchTopLevelOnly ==
    ObjectValidated =>
       /\ \A f \in CheckedFields :
             IF PythonAgrees(data_value.d[f], DeclaredType(data_schema.properties[f]))
             THEN ErrorsFor(errors, "type_mismatch", f) = {}
             ELSE OneMismatch(f)
       /\ \A i \in 1..Len(errors) :
             /\ errors[i].path \in SchemaFields
             /\ errors[i].type = "type_mismatch" => errors[i].path \in CheckedFields
             /\ errors[i].type = "missing_required_field" =>
                   errors[i].path \in {data_schema.required[j] :
                                          j \in 1..Len(data_schema.required)}

\* C27 witness: name is declared integer and holds True, email is declared
\* string and holds 1: one type_mismatch, for email only.
C27_Witness ==
    /\ ObjectValidated
    /\ data_schema.required = <<>>
    /\ data_schema.properties = [email |-> "string", name |-> "integer"]
    /\ data_value = PyDict([email |-> Py("int", "1"), name |-> Py("bool", "True")])
    /\ errors = <<SchemaError("type_mismatch", "email", "string", "int")>>

\* C28: on the small-N path the returned list is never a mixture: with
\* used_fallback False every item is a provider item, and they are the items
\* of the accepted response only; with used_fallback True every item is a
\* template case, and no item validated in a rejected attempt is among them.
C28_SmallPathNeverMixes ==
    (num_tests <= SmallNumLimit /\ gpc = "done") =>
       /\ gen_result.tests # <<>>
       /\ IF gen_result.used_fallback
          THEN /\ FromSource(gen_result.tests, "template") = 1..Len(gen_result.tests)
               /\ FromSource(gen_result.tests, "provider") = {}
          ELSE /\ client
               /\ FromSource(gen_result.tests, "provider") = 1..Len(gen_result.tests)
               /\ FromSource(gen_result.tests, "template") = {}
               /\ Len(gen_result.tests) = Min(last_valid, num_tests)

\* C28 witness: 20 requested; the third response held 15 validated items, too
\* few, and the 20 cases returned are all template cases.
C28_Witness ==
    /\ gpc = "done"
    /\ num_tests = 20
    /\ client
    /\ provider_calls = 3
    /\ last_valid = 15
    /\ gen_result.used_fallback
    /\ FromSource(gen_result.tests, "template") = 1..20

\* the names of the required list
RequiredNames(schema) == {schema.required[i] : i \in 1..Len(schema.required)}

\* An object schema without example values whose required names all appear
\* in properties and whose property schemas are mappings.
PlainObjectSchema(schema) ==
    /\ schema.type = "object"
    /\ RequiredNames(schema) \subseteq DOMAIN schema.properties
    /\ \A f \in DOMAIN schema.properties :
          schema.properties[f] \notin {"integer_with_example", "not_a_dict"}

\* C29: for every object schema that carries no example values and whose
\* required names all appear in properties, the sample
\* generate_sample_from_schema builds is a mapping with every property of the
\* schema, and validate_against_schema reports no violation for it.
C29_SampleValidatesAgainstItsSchema ==
    PlainObjectSchema(data_schema) =>
       /\ tpc # "raised"
       /\ tpc \in {"sampled", "done"} =>
             /\ data_value.k = "dict"
             /\ DOMAIN data_value.d = DOMAIN data_schema.properties
       /\ tpc = "done" => errors = <<>>

\* C29 witness: the sample of a schema with a required number and an object
\* with its own required field was validated without a violation.
C29_Witness ==
    /\ tpc = "done"
    /\ data_schema.type = "object"
    /\ data_schema.required = <<"email", "name">>
    /\ data_schema.properties = [email |-> "number", name |-> "object_requiring_id"]
    /\ data_value = PyDict([email |-> Py("float", "123.45"),
                            name |-> PyDict([f \in {"id"} |-> PyStr("test-string")])])
    /\ errors = <<>>

\* C30: for every N >= 1 and whatever the provider does, generate_test_cases
\* returns a list (no exception) of at most N and at least
\* max(1, floor(0.8*N)) items; when the provider supplied more valid items
\* than requested, in the single response or in the batches together, the
\* list is cut to exactly N.
C30_LengthBetweenEightyPercentAndNum ==
    /\ gpc # "raised"
    /\ gpc = "done" =>
          /\ Len(gen_result.tests) <= num_tests
          /\ Len(gen_result.tests) >= EightyPercent(num_tests)
          /\ (num_tests <= SmallNumLimit /\ ~gen_result.used_fallback
                 /\ last_valid > num_tests) =>
                Len(gen_result.tests) = num_tests
          /\ (num_tests > SmallNumLimit /\ Len(all_tests) > num_tests) =>
                /\ Len(gen_result.tests) = num_tests
                /\ gen_result.tests = SubSeq(all_tests, 1, num_tests)

\* C30 witness: 80 requested, both batches came back with 41 valid items, and
\* the 82 were cut to 80.
C30_Witness ==
    /\ gpc = "done"
    /\ num_tests = 80
    /\ batch_lens = <<41, 41>>
    /\ Len(all_tests) = 82
    /\ Len(gen_result.tests) = 80
    /\ ~gen_result.used_fallback

====
